---- MODULE Spec2Model ----
(***************************************************************************)
(* Attendance cleaners of hr_reports (hr_reports/utils/clean_format).      *)
(*                                                                         *)
(* One uploaded file is a sequence of source rows; a run of one cleaner    *)
(* turns it into the sequence of canonical attendance records, or fails    *)
(* with ValueError.  Each cleaner is translated from its own source file:  *)
(* the repository keeps one copy of the helpers per format and the copies  *)
(* differ, so every helper below carries the suffix of its cleaner.        *)
(*                                                                         *)
(* Encoding.  A punch time is the minute of the day (0..1439, seconds 0),  *)
(* a time stamp "YYYY-MM-DD HH:MM:SS" is date*1440 + minute, a decimal     *)
(* number of hours is kept in hundredths of an hour, and a cell of the     *)
(* output sheet is a tagged value [k, v]:                                  *)
(*   blank  ""                                                             *)
(*   num    a float, v = hundredths (8.5 -> 850; the HH.MM floats of       *)
(*          inout10/13 are floats too: 8 h 30 min -> 8.3 -> 830)           *)
(*   text   str() of a float, v = hundredths                               *)
(*   hhmm   the text "HH:MM", v = HH*100 + MM                              *)
(***************************************************************************)
EXTENDS Integers, Sequences, FiniteSets, TLC

VARIABLES file, directory, parser, outcome, records,
          columns, request, error, lookups, unresolved, effective, layout,
          branch, crystal_format, step, cleaned_file_docs, data_imports,
          started, raised, dir_reads,
          current_crystal_upload, attendance, pending, cancel, monitor

vars == <<file, directory, parser, outcome, records,
          columns, request, error, lookups, unresolved, effective, layout,
          branch, crystal_format, step, cleaned_file_docs, data_imports,
          started, raised, dir_reads,
          current_crystal_upload, attendance, pending, cancel, monitor>>

(* frappe.flags.current_crystal_upload of the submitting request, the      *)
(* Attendance table, the rows of the Data Import not yet inserted, and the *)
(* states of cancel_uploaded_file and of log_import_results                *)
import_vars == <<current_crystal_upload, attendance, pending, cancel, monitor>>

(* frappe.flags.current_crystal_upload unset *)
None == ""

(* log_import_results not running: its locals, the status of the Data      *)
(* Import it reads, the timeout of the job that runs it (0: run without    *)
(* one) and the entries it appended to the log of the upload               *)
NoMonitor ==
    [pc |-> "idle", status |-> "Pending", timeout |-> 0,
     elapsed_time |-> 0, last_status_update |-> 0, polls |-> 0, errors |-> 0,
     progress_at |-> -1, gap |-> 1800, final |-> 0, timed_out |-> FALSE]

(* cancel_uploaded_file not called: its locals, the part of the database   *)
(* it meets (bulk: further draft records of the upload; faults: what       *)
(* fails for a record; di_fails: the Data Import cannot be deleted) and    *)
(* whether it logged a failure                                             *)
NoCancel ==
    [pc |-> "idle", bulk |-> 0, faults |-> <<>>, di_fails |-> FALSE,
     total_count |-> 0, deleted_count |-> 0, failed_count |-> 0,
     failure_logged |-> FALSE]

(* the state of one Crystal Attendance Upload and of the documents its     *)
(* submission creates (attendance_flow.process_uploaded_file)              *)
upload_vars == <<branch, crystal_format, step, cleaned_file_docs,
                 data_imports, started, raised>>

NoTime == -1
(* a time cell whose text is no time, such as "abc" *)
BadTime == -2
NoDate == 0
(* a user date that is not of the form YYYY-MM-DD *)
BadDate == -1
DayMinutes == 1440

Blank == [k |-> "blank", v |-> 0]
Num(x) == [k |-> "num", v |-> x]
Text(x) == [k |-> "text", v |-> x]
HHMM(h, m) == [k |-> "hhmm", v |-> h * 100 + m]

Stamp(date, t) == date * DayMinutes + t
HourOf(ts) == (ts % DayMinutes) \div 60

SetMin(S) == CHOOSE x \in S : \A y \in S : x <= y
SetMax(S) == CHOOSE x \in S : \A y \in S : x >= y

RECURSIVE SeqFilter(_, _)
SeqFilter(s, keep) ==
    IF s = <<>> THEN <<>>
    ELSE IF keep[Head(s)] THEN <<Head(s)>> \o SeqFilter(Tail(s), keep)
         ELSE SeqFilter(Tail(s), keep)

Range(s) == {s[i] : i \in 1..Len(s)}

(* round(seconds / 3600, 2) for a whole number of minutes: m/60 hours is   *)
(* never half way between two hundredths, so the float rounds as the exact *)
(* quotient does.                                                          *)
Round2(m) == (m * 100 + 30) \div 60

(* What a run of a cleaner leaves behind: the records of the saved sheet   *)
(* or the kind of the exception, the number of per-row employee lookups    *)
(* made and the raw ids reported as not found.                             *)
NoRequest == <<NoDate, NoDate>>

Cleaned(recs) ==
    [ok |-> TRUE, recs |-> recs, err |-> "", lookups |-> 0, warned |-> <<>>,
     span |-> NoRequest]

Failed(kind) ==
    [ok |-> FALSE, recs |-> <<>>, err |-> kind, lookups |-> 0, warned |-> <<>>,
     span |-> NoRequest]

(***************************************************************************)
(* The employee directory: Employee documents (name, attendance_device_id).*)
(***************************************************************************)
Employees == {[name |-> "V1", device |-> "101"]}

RawIds == {"101", "0101", "999", "V1", "Z9"}
IsNumericId(id) == id \in {"101", "0101", "999"}
(* str(int(float(x))) and x.lstrip('0') on the identifiers above *)
IntStr(id) == IF id = "0101" THEN "101" ELSE id

(* frappe.db.get_value("Employee", {"attendance_device_id": id}, "name") *)
LookupDevice(dir, id) ==
    IF \E e \in dir : e.device = id
    THEN (CHOOSE e \in dir : e.device = id).name
    ELSE ""

(***************************************************************************)
(* format_working_hours (inout16, inout30, crystal): h = int(hours),       *)
(* m = int((hours - h) * 60) in IEEE doubles.  The product falls just      *)
(* below the exact value for the fractions of FloatShortFmt, where int()   *)
(* then yields one minute less than the exact floor.                       *)
(***************************************************************************)
FloatShortFmt(h) ==
    IF h = 1 THEN {15, 20, 40, 45, 65, 90}
    ELSE IF h \in 2..3 THEN {5, 15, 30, 40, 55, 65, 80, 90}
    ELSE IF h \in 4..7 THEN {5, 10, 30, 35, 55, 60, 80, 85}
    ELSE IF h \in 8..15 THEN {10, 20, 35, 45, 60, 70, 85, 95}
    ELSE IF h \in 16..23 THEN {15, 20, 40, 45, 65, 70, 90, 95}
    ELSE {}

format_working_hours(c) ==
    IF c <= 0 THEN HHMM(0, 0)
    ELSE LET h == c \div 100
             f == c % 100
             m == (f * 60) \div 100
         IN  HHMM(h, IF f \in FloatShortFmt(h) THEN m - 1 ELSE m)

(***************************************************************************)
(* clean_daily_inout30                                                     *)
(***************************************************************************)
calculate_working_hours30(in, out) ==
    IF in = NoTime \/ out = NoTime THEN 0
    ELSE LET o == IF out < in THEN out + DayMinutes ELSE out
         IN  Round2(o - in)

NearestShift30(hour) ==
    LET d == [s \in {"A", "G", "B", "C"} |->
                 CASE s = "A" -> IF hour >= 6 THEN hour - 6 ELSE 6 - hour
                   [] s = "G" -> IF hour >= 9 THEN hour - 9 ELSE 9 - hour
                   [] s = "B" -> IF hour >= 14 THEN hour - 14 ELSE 14 - hour
                   [] s = "C" -> IF hour > 12
                                 THEN (IF hour >= 22 THEN hour - 22 ELSE 22 - hour)
                                 ELSE hour + 24 - 22]
        best == SetMin({d[s] : s \in {"A", "G", "B", "C"}})
    IN  (* min() over a dict returns the first key, in insertion order *)
        IF d["A"] = best THEN "A"
        ELSE IF d["G"] = best THEN "G"
        ELSE IF d["B"] = best THEN "B"
        ELSE "C"

detect_shift30(in, out) ==
    IF in = NoTime THEN "G"
    ELSE LET hour == HourOf(in)
         IN  IF 5 <= hour /\ hour <= 7 THEN "A"
             ELSE IF 8 <= hour /\ hour <= 10 THEN "G"
             ELSE IF 13 <= hour /\ hour <= 15 THEN "B"
             ELSE IF 21 <= hour /\ hour <= 23 THEN "C"
             ELSE NearestShift30(hour)

calculate_overtime30(c) ==
    IF c <= 0 THEN Blank
    ELSE LET overtime == c - 900
         IN  IF overtime < 100 THEN Blank ELSE Text(overtime)

(* the same rule with the thresholds themselves excluded *)
determine_status30_strict(c) ==
    IF c > 700 THEN "Present"
    ELSE IF c > 450 THEN "Half Day"
    ELSE "Absent"

determine_status30(c) ==
    IF c >= 700 THEN "Present"
    ELSE IF c >= 450 THEN "Half Day"
    ELSE "Absent"

(* the (Ramco EMP ID, date) keys of punch_data, in insertion order *)
RECURSIVE Keys30(_, _)
Keys30(rows, seen) ==
    IF rows = <<>> THEN <<>>
    ELSE LET r == Head(rows)
             key == <<r.id, r.date>>
         IN  IF r.date = NoDate \/ r.id = "" \/ key \in seen
             THEN Keys30(Tail(rows), seen)
             ELSE <<key>> \o Keys30(Tail(rows), seen \cup {key})

Record30(rows, dir, key) ==
    LET grp == SeqFilter(rows, [r \in Range(rows) |-> r.id = key[1] /\ r.date = key[2]])
        in_times == {Stamp(r.date, r.tin) : r \in {x \in Range(grp) : x.tin # NoTime}}
        out_times == {Stamp(r.date, r.tout) : r \in {x \in Range(grp) : x.tout # NoTime}}
        first_in == IF in_times = {} THEN NoTime ELSE SetMin(in_times)
        last_out == IF out_times = {} THEN NoTime ELSE SetMax(out_times)
        work_hours_decimal == calculate_working_hours30(first_in, last_out)
    IN  [date |-> key[2],
         employee |-> LookupDevice(dir, key[1]),
         name |-> grp[1].name,
         status |-> determine_status30(work_hours_decimal),
         inTime |-> first_in,
         outTime |-> last_out,
         hours |-> format_working_hours(work_hours_decimal),
         shift |-> detect_shift30(first_in, last_out),
         overtime |-> calculate_overtime30(work_hours_decimal),
         raw |-> key[1],
         calc |-> work_hours_decimal,
         code |-> ""]

clean_daily_inout30(rows, dir) ==
    LET keys == Keys30(rows, {})
        recs == [i \in 1..Len(keys) |-> Record30(rows, dir, keys[i])]
    IN  IF recs = <<>> THEN Failed("EmptyResultError")
        ELSE Cleaned(recs)

(***************************************************************************)
(* clean_daily_inout10                                                     *)
(***************************************************************************)
(* int((ot_hours - ot_hrs) * 60) with ot_hours = total_seconds/3600 - 8 - 1 *)
(* in IEEE doubles: for the minutes of FloatShortOT the product falls just *)
(* below the whole minute and int() yields one minute less.                *)
FloatShortOT(ot_hrs) ==
    IF ot_hrs \in 0..6
    THEN {2, 4, 6, 8, 10, 12, 14, 17, 19, 21, 23, 25, 27, 29, 32, 34, 36, 38,
          40, 42, 44, 47, 49, 51, 53, 55, 57, 59}
    ELSE IF ot_hrs \in 7..14
    THEN {1, 4, 5, 8, 9, 12, 13, 16, 19, 20, 23, 24, 27, 28, 31, 34, 35, 38,
          39, 42, 43, 46, 49, 50, 53, 54, 57, 58}
    ELSE {}

(* float(f"{hours}.{minutes:02d}") of a duration in minutes *)
HourDotMinute(total) == Num((total \div 60) * 100 + (total % 60))

(* float(f"{ot_hrs}.{ot_mins:02d}") of an overtime of ot minutes *)
OvertimeDotMinute(ot) ==
    LET ot_hrs == ot \div 60
        m == ot % 60
    IN  Num(ot_hrs * 100 + (IF m \in FloatShortOT(ot_hrs) THEN m - 1 ELSE m))

(* format_datetime: None when the date or the time cell is empty *)
format_datetime(date, t) ==
    IF date = NoDate \/ t = NoTime THEN NoTime ELSE Stamp(date, t)

(* returns <<display_hours, total (minutes)>>; display Blank stands for None *)
calculate_working_hours10(in, out) ==
    IF in = NoTime \/ out = NoTime THEN <<Blank, 0>>
    ELSE LET o == IF out <= in THEN out + DayMinutes ELSE out
             total == o - in
         IN  <<HourDotMinute(total), total>>

determine_status10(total) ==
    IF total >= 420 THEN "Present"
    ELSE IF total >= 270 THEN "Half Day"
    ELSE "Absent"

detect_shift10(in, out) ==
    LET hour == IF in # NoTime THEN HourOf(in)
                ELSE IF out # NoTime THEN HourOf(out) ELSE NoTime
    IN  IF hour = NoTime THEN ""
        ELSE IF 5 <= hour /\ hour <= 7 THEN "A"
        ELSE IF 8 <= hour /\ hour <= 10 THEN "G"
        ELSE IF 13 <= hour /\ hour <= 15 THEN "B"
        ELSE IF 21 <= hour /\ hour <= 23 THEN "C"
        ELSE ""

calculate_overtime10(total, shift) ==
    IF total <= 0 THEN Blank
    ELSE LET ot == total - 8 * 60 - 60
         IN  IF ot < 60 THEN Blank ELSE OvertimeDotMinute(ot)

(* employee_cache: str(int(float(attendance_device_id))) -> Employee name *)
employee_cache10(dir) == {e \in dir : IsNumericId(e.device)}

(* the Employee of a row: "" stands for None *)
Resolve10(dir, id) ==
    IF id = "" THEN ""
    ELSE IF IsNumericId(id)
         THEN LET device_id_str == IntStr(id)
                  hit == {e \in employee_cache10(dir) : IntStr(e.device) = device_id_str}
              IN  IF hit # {} THEN (CHOOSE e \in hit : TRUE).name ELSE device_id_str
         ELSE IF \E e \in dir : e.name = id THEN id ELSE ""

(* parse_file_date_range and validate_date_range without a custom range:  *)
(* the span of the dates of the file (the current month when it has none). *)
FileSpan(rows) ==
    LET ds == {r.date : r \in {x \in Range(rows) : x.date # NoDate}}
    IN  IF ds = {} THEN <<1, 31>> ELSE <<SetMin(ds), SetMax(ds)>>

(* the validation without the test against the file's start date *)
validate_date_range_open(span, req) ==
    IF req[1] = NoDate \/ req[2] = NoDate THEN [ok |-> TRUE, span |-> span]
    ELSE IF req[1] = BadDate \/ req[2] = BadDate THEN [ok |-> FALSE, span |-> span]
    ELSE IF req[1] > req[2] THEN [ok |-> FALSE, span |-> span]
    ELSE IF req[2] > span[2] THEN [ok |-> FALSE, span |-> span]
    ELSE [ok |-> TRUE, span |-> req]

(* custom_from_date, custom_to_date: NoDate for None or "" *)
validate_date_range(span, req) ==
    IF req[1] = NoDate \/ req[2] = NoDate THEN [ok |-> TRUE, span |-> span]
    ELSE IF req[1] = BadDate \/ req[2] = BadDate THEN [ok |-> FALSE, span |-> span]
    ELSE IF req[1] > req[2] THEN [ok |-> FALSE, span |-> span]
    ELSE IF req[1] < span[1] THEN [ok |-> FALSE, span |-> span]
    ELSE IF req[2] > span[2] THEN [ok |-> FALSE, span |-> span]
    ELSE [ok |-> TRUE, span |-> req]

Row10(dir, span, r) ==
    LET employee_id == Resolve10(dir, r.id)
        in_time_fmt == format_datetime(r.date, r.tin)
        out_time_fmt == format_datetime(r.date, r.tout)
        wh == calculate_working_hours10(in_time_fmt, out_time_fmt)
        total_seconds == wh[2]
        shift == detect_shift10(in_time_fmt, out_time_fmt)
        rec == [date |-> r.date,
                employee |-> employee_id,
                name |-> r.name,
                status |-> determine_status10(total_seconds),
                inTime |-> in_time_fmt,
                outTime |-> out_time_fmt,
                hours |-> wh[1],
                shift |-> shift,
                overtime |-> calculate_overtime10(total_seconds, shift),
                raw |-> r.id,
                calc |-> total_seconds,
                code |-> ""]
    IN  IF r.tin = NoTime /\ r.tout = NoTime THEN <<>>
        ELSE IF employee_id = "" THEN <<>>
        ELSE IF r.date # NoDate /\ (r.date < span[1] \/ r.date > span[2]) THEN <<>>
        ELSE <<rec>>

RECURSIVE Rows10(_, _, _)
Rows10(dir, span, rows) ==
    IF rows = <<>> THEN <<>>
    ELSE Row10(dir, span, Head(rows)) \o Rows10(dir, span, Tail(rows))

(* the order of str values that occur as Employee (groupby sorts its keys) *)
StrOrder == <<"", "0101", "101", "999", "V1", "V2", "Z9">>
StrRank(x) == CHOOSE i \in 1..Len(StrOrder) : StrOrder[i] = x
KeyLess(a, b) ==
    \/ StrRank(a[1]) < StrRank(b[1])
    \/ a[1] = b[1] /\ a[2] < b[2]

RECURSIVE SortKeys(_)
SortKeys(K) ==
    IF K = {} THEN <<>>
    ELSE LET k == CHOOSE x \in K : \A y \in K \ {x} : KeyLess(x, y)
         IN  <<k>> \o SortKeys(K \ {k})

(* the groups of df.groupby(['Employee', 'Attendance Date']) that survive  *)
(* "if not emp or not date: continue"                                      *)
GroupKeys(recs) ==
    SortKeys({<<r.employee, r.date>> :
                 r \in {x \in Range(recs) : x.employee # "" /\ x.date # NoDate}})

Group(recs, key) ==
    SeqFilter(recs, [r \in Range(recs) |-> r.employee = key[1] /\ r.date = key[2]])

FirstIn(grp) ==
    LET S == {r.inTime : r \in {x \in Range(grp) : x.inTime # NoTime}}
    IN  IF S = {} THEN NoTime ELSE SetMin(S)

LastOut(grp) ==
    LET S == {r.outTime : r \in {x \in Range(grp) : x.outTime # NoTime}}
    IN  IF S = {} THEN NoTime ELSE SetMax(S)

Merged10(recs, key) ==
    LET grp == Group(recs, key)
        first_in == FirstIn(grp)
        out0 == LastOut(grp)
        both == first_in # NoTime /\ out0 # NoTime
        last_out == IF both /\ out0 <= first_in THEN out0 + DayMinutes ELSE out0
        total_seconds == IF both THEN last_out - first_in ELSE 0
        shift == detect_shift10(first_in, last_out)
    IN  [date |-> key[2],
         employee |-> key[1],
         name |-> grp[1].name,
         status |-> determine_status10(total_seconds),
         inTime |-> first_in,
         outTime |-> last_out,
         hours |-> IF total_seconds > 0 THEN HourDotMinute(total_seconds) ELSE Blank,
         shift |-> shift,
         overtime |-> calculate_overtime10(total_seconds, shift),
         raw |-> grp[1].raw,
         calc |-> total_seconds,
         code |-> ""]

merge_first_in_last_out10(recs) ==
    LET keys == GroupKeys(recs)
    IN  [i \in 1..Len(keys) |-> Merged10(recs, keys[i])]

(* rows of the loop that reach the employee lookup *)
Looked10(rows) ==
    Cardinality({i \in 1..Len(rows) :
        (rows[i].tin # NoTime \/ rows[i].tout # NoTime) /\ rows[i].id # ""})

clean_daily_inout10(rows, dir, cols, req) ==
    LET range == validate_date_range(FileSpan(rows), req)
        built == Rows10(dir, range.span, rows)
        merged == merge_first_in_last_out10(built)
    IN  IF ~cols THEN Failed("FormatError")
        ELSE IF ~range.ok THEN Failed("RangeError")
        ELSE IF merged = <<>>
        THEN [Failed("EmptyResultError") EXCEPT !.lookups = Looked10(rows),
                                                !.span = range.span]
        ELSE [Cleaned(merged) EXCEPT !.lookups = Looked10(rows),
                                     !.span = range.span]

(***************************************************************************)
(* clean_daily_inout13                                                     *)
(***************************************************************************)
(* "Convert seconds -> HH.MM format (e.g., 8 hours 14 minutes = 8.14)" *)
seconds_to_decimal_hours13(total) ==
    IF total <= 0 THEN Num(0) ELSE HourDotMinute(total)

(* frappe.get_doc("Employee", {"attendance_device_id": emp_id}).name, ""   *)
(* when get_doc raises                                                     *)
Resolve13(dir, id) == IF id = "" THEN "" ELSE LookupDevice(dir, id)

Status13(missing, total) ==
    IF missing THEN "Absent"
    ELSE IF total >= 420 THEN "Present"
    ELSE IF total >= 270 THEN "Half Day"
    ELSE "Absent"

Overtime13(total) ==
    IF total > 0
    THEN LET ot == total - 8 * 60 - 60
         IN  IF ot > 0 THEN OvertimeDotMinute(ot) ELSE Blank
    ELSE Blank

Row13(dir, span, r) ==
    LET in_time_fmt == format_datetime(r.date, r.tin)
        out_time_fmt == format_datetime(r.date, r.tout)
        any_punch_missing == in_time_fmt = NoTime \/ out_time_fmt = NoTime
        out_dt == IF out_time_fmt <= in_time_fmt THEN out_time_fmt + DayMinutes
                  ELSE out_time_fmt
        total_seconds == IF any_punch_missing THEN 0 ELSE out_dt - in_time_fmt
        rec == [date |-> r.date,
                employee |-> Resolve13(dir, r.id),
                name |-> r.name,
                status |-> Status13(any_punch_missing, total_seconds),
                inTime |-> in_time_fmt,
                outTime |-> out_time_fmt,
                hours |-> IF any_punch_missing THEN Blank
                          ELSE seconds_to_decimal_hours13(total_seconds),
                shift |-> detect_shift10(in_time_fmt, out_time_fmt),
                overtime |-> Overtime13(total_seconds),
                raw |-> r.id,
                calc |-> total_seconds,
                code |-> ""]
    IN  IF r.date = NoDate THEN <<>>
        ELSE IF r.date < span[1] \/ r.date > span[2] THEN <<>>
        ELSE IF r.tin = NoTime /\ r.tout = NoTime /\ r.stat = "" THEN <<>>
        ELSE <<rec>>

RECURSIVE Rows13(_, _, _)
Rows13(dir, span, rows) ==
    IF rows = <<>> THEN <<>>
    ELSE Row13(dir, span, Head(rows)) \o Rows13(dir, span, Tail(rows))

Merged13(recs, key) ==
    LET grp == Group(recs, key)
        first_in == FirstIn(grp)
        out0 == LastOut(grp)
        both == first_in # NoTime /\ out0 # NoTime
        last_out == IF both /\ out0 <= first_in THEN out0 + DayMinutes ELSE out0
        total_seconds == IF both THEN last_out - first_in ELSE 0
    IN  [date |-> key[2],
         employee |-> key[1],
         name |-> grp[1].name,
         status |-> Status13(~both, total_seconds),
         inTime |-> first_in,
         outTime |-> last_out,
         hours |-> IF total_seconds > 0 THEN seconds_to_decimal_hours13(total_seconds)
                   ELSE Blank,
         shift |-> detect_shift10(first_in, last_out),
         overtime |-> Overtime13(total_seconds),
         raw |-> grp[1].raw,
         calc |-> total_seconds,
         code |-> ""]

merge_first_in_last_out13(recs) ==
    LET keys == GroupKeys(recs)
    IN  [i \in 1..Len(keys) |-> Merged13(recs, keys[i])]

(* rows of the loop that reach frappe.get_doc *)
Looked13(span, rows) ==
    Cardinality({i \in 1..Len(rows) :
        /\ rows[i].date # NoDate
        /\ rows[i].date >= span[1] /\ rows[i].date <= span[2]
        /\ (rows[i].tin # NoTime \/ rows[i].tout # NoTime \/ rows[i].stat # "")
        /\ rows[i].id # ""})

clean_daily_inout13(rows, dir, cols, req) ==
    LET range == validate_date_range(FileSpan(rows), req)
        built == Rows13(dir, range.span, rows)
        df_final == SeqFilter(built, [r \in Range(built) |-> r.employee # ""])
        merged == merge_first_in_last_out13(df_final)
    IN  IF ~cols THEN Failed("FormatError")
        ELSE IF ~range.ok THEN Failed("RangeError")
        ELSE IF merged = <<>>
        THEN [Failed("EmptyResultError") EXCEPT !.lookups = Looked13(range.span, rows),
                                                !.span = range.span]
        ELSE [Cleaned(merged) EXCEPT !.lookups = Looked13(range.span, rows),
                                     !.span = range.span]

(***************************************************************************)
(* clean_daily_inout14: rows are in/out pairs, the shift is a column       *)
(***************************************************************************)
seconds_to_decimal_hours14(total) == IF total <= 0 THEN 0 ELSE Round2(total)

(* round(work_float - 9, 2), blank below 1, on work_float in hundredths *)
OvertimeOfHours14(work_float) ==
    LET overtime == work_float - 900
    IN  IF overtime < 100 THEN Blank ELSE Num(overtime)

calculate_overtime_from_seconds14(total) ==
    IF total <= 0 THEN Blank ELSE OvertimeOfHours14(Round2(total))

Status14(missing, c) ==
    IF missing THEN "Absent"
    ELSE IF c >= 700 THEN "Present"
    ELSE IF c >= 450 THEN "Half Day"
    ELSE "Absent"

(* frappe.get_doc("Employee", {"attendance_device_id": gp_no}).name *)
Resolve14(dir, gp_no) == IF gp_no = "" THEN "" ELSE LookupDevice(dir, gp_no)

Row14(dir, span, r) ==
    LET in_time_fmt == format_datetime(r.date, r.tin)
        out_time_fmt == format_datetime(r.date, r.tout)
        any_punch_missing == in_time_fmt = NoTime \/ out_time_fmt = NoTime
        out_dt == IF out_time_fmt <= in_time_fmt THEN out_time_fmt + DayMinutes
                  ELSE out_time_fmt
        work_hrs_decimal == IF any_punch_missing THEN 0
                            ELSE seconds_to_decimal_hours14(out_dt - in_time_fmt)
        rec == [date |-> r.date,
                employee |-> Resolve14(dir, r.id),
                name |-> r.name,
                status |-> Status14(any_punch_missing, work_hrs_decimal),
                inTime |-> in_time_fmt,
                outTime |-> out_time_fmt,
                hours |-> IF any_punch_missing THEN Blank ELSE Num(work_hrs_decimal),
                shift |-> IF r.shift = "O" THEN "A" ELSE r.shift,
                (* called with work_hrs_decimal * 3600, which rounds back to it *)
                overtime |-> IF work_hrs_decimal > 0
                             THEN OvertimeOfHours14(work_hrs_decimal)
                             ELSE Blank,
                raw |-> r.id,
                calc |-> work_hrs_decimal,
                code |-> ""]
    IN  IF r.date # NoDate /\ (r.date < span[1] \/ r.date > span[2]) THEN <<>>
        ELSE <<rec>>

RECURSIVE Rows14(_, _, _)
Rows14(dir, span, rows) ==
    IF rows = <<>> THEN <<>>
    ELSE Row14(dir, span, Head(rows)) \o Rows14(dir, span, Tail(rows))

(* _out_dt of a row: pushed to the next day when Out <= In *)
OutDt14(r) ==
    IF r.inTime # NoTime /\ r.outTime # NoTime /\ r.outTime <= r.inTime
    THEN r.outTime + DayMinutes ELSE r.outTime

(* the durations of the rows of a group that carry both punches, summed *)
RECURSIVE SumPairs14(_)
SumPairs14(grp) ==
    IF grp = <<>> THEN 0
    ELSE LET r == Head(grp)
             d == IF r.inTime # NoTime /\ r.outTime # NoTime /\ OutDt14(r) > r.inTime
                  THEN OutDt14(r) - r.inTime ELSE 0
         IN  d + SumPairs14(Tail(grp))

RECURSIVE FirstShift14(_)
FirstShift14(grp) ==
    IF grp = <<>> THEN ""
    ELSE IF Head(grp).shift # "" THEN Head(grp).shift
    ELSE FirstShift14(Tail(grp))

(* the span from the first in to the last out, whatever the pairs *)
total_seconds14_span(grp, earliest_in, latest_out) ==
    IF earliest_in # NoTime /\ latest_out # NoTime /\ latest_out > earliest_in
    THEN latest_out - earliest_in ELSE 0

(* total_seconds of a group: the summed pairs, and the span from the      *)
(* earliest in to the latest out when no row carries a pair                *)
total_seconds14(grp, earliest_in, latest_out) ==
    LET paired == SumPairs14(grp)
    IN  IF paired <= 0 /\ earliest_in # NoTime /\ latest_out # NoTime
           /\ latest_out > earliest_in
        THEN latest_out - earliest_in ELSE paired

Merged14(recs, key) ==
    LET grp == Group(recs, key)
        earliest_in == FirstIn(grp)
        outs == {OutDt14(r) : r \in {x \in Range(grp) : x.outTime # NoTime}}
        latest_out == IF outs = {} THEN NoTime ELSE SetMax(outs)
        any_punch_missing == earliest_in = NoTime \/ latest_out = NoTime
        total_seconds == total_seconds14(grp, earliest_in, latest_out)
        work_hrs_decimal == IF any_punch_missing THEN 0
                            ELSE seconds_to_decimal_hours14(total_seconds)
    IN  [date |-> key[2],
         employee |-> key[1],
         name |-> grp[1].name,
         status |-> Status14(any_punch_missing, work_hrs_decimal),
         inTime |-> earliest_in,
         outTime |-> latest_out,
         hours |-> IF any_punch_missing THEN Blank ELSE Num(work_hrs_decimal),
         shift |-> FirstShift14(grp),
         overtime |-> IF any_punch_missing THEN Blank
                      ELSE calculate_overtime_from_seconds14(total_seconds),
         raw |-> grp[1].raw,
         calc |-> work_hrs_decimal,
         code |-> ""]

(* the records left as they are, as on "Continuing without merge..." *)
merge_overlapping_attendances_none(recs) == recs

merge_overlapping_attendances(recs) ==
    LET keys == GroupKeys(recs)
    IN  [i \in 1..Len(keys) |-> Merged14(recs, keys[i])]

(* at most this many "Employee not found" warnings are printed *)
WarnLimit14 == 5

(* the GP numbers printed as not found, one warning per failing row *)
Warned14(dir, rows) ==
    LET failing == SeqFilter(rows, [r \in Range(rows) |->
                       r.id # "" /\ Resolve14(dir, r.id) = ""])
        n == IF Len(failing) < WarnLimit14 THEN Len(failing) ELSE WarnLimit14
    IN  [i \in 1..n |-> failing[i].id]

Looked14(rows) == Cardinality({i \in 1..Len(rows) : rows[i].id # ""})

(* the row loop with the directory as each row's lookup found it: row i  *)
(* is resolved by its own frappe.get_doc, against dirs[i]                  *)
RowsSeen14(dirs, span, rows) ==
    LET RECURSIVE From(_)
        From(i) == IF i > Len(rows) THEN <<>>
                   ELSE Row14(dirs[i], span, rows[i]) \o From(i + 1)
    IN  From(1)

WarnedSeen14(dirs, rows) ==
    LET idx == SeqFilter([i \in 1..Len(rows) |-> i],
                         [i \in 1..Len(rows) |->
                             rows[i].id # "" /\ Resolve14(dirs[i], rows[i].id) = ""])
        n == IF Len(idx) < WarnLimit14 THEN Len(idx) ELSE WarnLimit14
    IN  [k \in 1..n |-> rows[idx[k]].id]

clean_daily_inout14_seen(rows, dirs, cols, req) ==
    LET range == validate_date_range(FileSpan(rows), req)
        built == RowsSeen14(dirs, range.span, rows)
        has_employee == SeqFilter(built, [r \in Range(built) |-> r.employee # ""])
        no_employee == SeqFilter(built, [r \in Range(built) |-> r.employee = ""])
        df_final == merge_overlapping_attendances(has_employee) \o no_employee
    IN  IF ~cols THEN Failed("FormatError")
        ELSE IF ~range.ok THEN Failed("RangeError")
        ELSE IF df_final = <<>>
        THEN [Failed("EmptyResultError") EXCEPT !.lookups = Looked14(rows),
                                                !.warned = WarnedSeen14(dirs, rows),
                                                !.span = range.span]
        ELSE [Cleaned(df_final) EXCEPT !.lookups = Looked14(rows),
                                       !.warned = WarnedSeen14(dirs, rows),
                                       !.span = range.span]

(* the cleaner with the checks of the columns and of the range moved      *)
(* behind the loop over the rows                                           *)
clean_daily_inout14_late(rows, dir, cols, req) ==
    LET range == validate_date_range(FileSpan(rows), req)
        built == Rows14(dir, FileSpan(rows), rows)
        seen == [lookups |-> Looked14(rows), warned |-> Warned14(dir, rows)]
    IN  IF ~cols
        THEN [Failed("FormatError") EXCEPT !.lookups = seen.lookups,
                                           !.warned = seen.warned]
        ELSE IF ~range.ok
        THEN [Failed("RangeError") EXCEPT !.lookups = seen.lookups,
                                          !.warned = seen.warned]
        ELSE [Cleaned(built) EXCEPT !.lookups = seen.lookups,
                                    !.warned = seen.warned,
                                    !.span = range.span]

(* a run during which the directory does not change *)
clean_daily_inout14(rows, dir, cols, req) ==
    clean_daily_inout14_seen(rows, [i \in 1..Len(rows) |-> dir], cols, req)

(***************************************************************************)
(* clean_daily_inout7_2                                                    *)
(***************************************************************************)
detect_shift7_2(checkin) ==
    IF checkin = NoTime THEN ""
    ELSE LET t == checkin % DayMinutes
         IN  IF t >= 21 * 60 + 30 \/ t < 5 * 60 + 30 THEN "C"
             ELSE IF 8 * 60 + 30 <= t /\ t <= 17 * 60 + 30 THEN "G"
             ELSE IF 5 * 60 + 30 <= t /\ t <= 14 * 60 THEN "A"
             ELSE IF 13 * 60 + 30 <= t /\ t <= 22 * 60 THEN "B"
             ELSE ""

(* rows that reach grouped_punches, keyed (emp_code, emp_name, att_date) *)
Kept7_2(rows) ==
    SeqFilter(rows, [r \in Range(rows) |->
        r.id # "" /\ r.name # "" /\ r.date # NoDate /\ r.tin # NoTime])

RECURSIVE Keys7_2(_, _)
Keys7_2(rows, seen) ==
    IF rows = <<>> THEN <<>>
    ELSE LET r == Head(rows)
             key == <<IntStr(r.id), r.name, r.date>>
         IN  IF key \in seen THEN Keys7_2(Tail(rows), seen)
             ELSE <<key>> \o Keys7_2(Tail(rows), seen \cup {key})

Record7_2(rows, dir, key) ==
    LET grp == SeqFilter(rows, [r \in Range(rows) |->
                   IntStr(r.id) = key[1] /\ r.name = key[2] /\ r.date = key[3]])
        ins == {Stamp(r.date, r.tin) : r \in Range(grp)}
        outs == {Stamp(r.date, r.tout) : r \in {x \in Range(grp) : x.tout # NoTime}}
        first_checkin == SetMin(ins)
        last_checkout == IF outs = {} THEN NoTime ELSE SetMax(outs)
        checkout_dt_calc == IF last_checkout < first_checkin
                            THEN last_checkout + DayMinutes ELSE last_checkout
        working_hours_float == IF last_checkout = NoTime THEN 0
                               ELSE Round2(checkout_dt_calc - first_checkin)
        overtime_hours == working_hours_float - 800
    IN  [date |-> key[3],
         employee |-> LookupDevice(dir, key[1]),
         name |-> key[2],
         status |-> IF last_checkout = NoTime THEN "Absent"
                    ELSE IF working_hours_float >= 700 THEN "Present"
                    ELSE IF working_hours_float >= 450 THEN "Half Day"
                    ELSE "Absent",
         inTime |-> first_checkin,
         outTime |-> last_checkout,
         hours |-> Num(working_hours_float),
         shift |-> detect_shift7_2(first_checkin),
         (* the saved workbook: cells below 1.0 are emptied *)
         overtime |-> IF overtime_hours < 100 THEN Blank ELSE Num(overtime_hours),
         raw |-> grp[1].id,
         calc |-> working_hours_float,
         code |-> ""]

clean_daily_inout7_2(rows, dir) ==
    (* int(row["Emp Code"]) raises ValueError on a code that is no number *)
    IF \E r \in Range(rows) : r.id # "" /\ ~IsNumericId(r.id)
    THEN Failed("ValueError")
    ELSE LET kept == Kept7_2(rows)
             keys == Keys7_2(kept, {})
             recs == [i \in 1..Len(keys) |-> Record7_2(kept, dir, keys[i])]
         IN  IF recs = <<>> THEN Failed("EmptyResultError")
             ELSE Cleaned(recs)

(***************************************************************************)
(* clean_daily_inout12                                                     *)
(***************************************************************************)
(* returns <<decimal_hours, total_hours (minutes)>> *)
calculate_working_hours12(in, out) ==
    IF in = NoTime \/ out = NoTime THEN <<Blank, 0>>
    ELSE LET o == IF out < in THEN out + DayMinutes ELSE out
         IN  <<Num(Round2(o - in)), o - in>>

status_map12 == [P |-> "Present", AB |-> "Absent", HD |-> "Half Day",
                 WO |-> "Holiday", H |-> "Holiday", CL |-> "On Leave",
                 PL |-> "On Leave", SL |-> "On Leave", EL |-> "On Leave",
                 ML |-> "On Leave"]

determine_status12(total, status_raw) ==
    IF status_raw \in DOMAIN status_map12 THEN status_map12[status_raw]
    ELSE IF total >= 420 THEN "Present"
    ELSE IF total >= 270 THEN "Half Day"
    ELSE "Absent"

detect_shift12(in) ==
    IF in = NoTime THEN "G"
    ELSE LET hour == HourOf(in)
         IN  IF hour >= 21 \/ hour <= 7 THEN "C"
             ELSE IF 7 < hour /\ hour < 15 THEN "A"
             ELSE IF 15 <= hour /\ hour < 21 THEN "B"
             ELSE "G"

calculate_overtime12(c) ==
    IF c <= 0 THEN Blank
    ELSE LET overtime == c - 900
         IN  IF overtime < 100 THEN Blank ELSE Num(overtime)

Resolve12(dir, device, veil) ==
    IF device # "" /\ \E e \in dir : e.device = device
    THEN LookupDevice(dir, device)
    ELSE IF veil # "" /\ \E e \in dir : e.name = veil THEN veil
    ELSE IF veil # "" THEN veil
    ELSE device

Row12(dir, r) ==
    LET in_time_str == format_datetime(r.date, r.tin)
        out_time_str == format_datetime(r.date, r.tout)
        wh == calculate_working_hours12(in_time_str, out_time_str)
        status == determine_status12(wh[2], r.stat)
        rec == [date |-> r.date,
                employee |-> Resolve12(dir, r.id, r.veil),
                name |-> r.name,
                status |-> status,
                inTime |-> in_time_str,
                outTime |-> out_time_str,
                hours |-> wh[1],
                shift |-> IF in_time_str # NoTime THEN detect_shift12(in_time_str) ELSE "",
                overtime |-> IF wh[1].k = "num" /\ wh[1].v > 0
                             THEN calculate_overtime12(wh[1].v) ELSE Blank,
                raw |-> r.id,
                calc |-> wh[2],
                code |-> IF r.stat \in DOMAIN status_map12 THEN r.stat ELSE ""]
    IN  IF r.id = "" \/ r.name = "" THEN <<>>
        ELSE IF r.date = NoDate THEN <<>>
        ELSE IF r.tin = NoTime /\ r.tout = NoTime THEN <<>>
        ELSE IF status = "Holiday" THEN <<>>
        ELSE <<rec>>

RECURSIVE Rows12(_, _)
Rows12(dir, rows) ==
    IF rows = <<>> THEN <<>>
    ELSE Row12(dir, Head(rows)) \o Rows12(dir, Tail(rows))

clean_daily_inout12(rows, dir) ==
    LET built == Rows12(dir, rows)
        final == SeqFilter(built, [r \in Range(built) |-> r.employee # ""])
    IN  IF final = <<>> THEN Failed("EmptyResultError")
        ELSE Cleaned(final)

(***************************************************************************)
(* clean_daily_inout16                                                     *)
(***************************************************************************)
detect_shift_from_time16(in) ==
    IF in = NoTime THEN ""
    ELSE LET hour == HourOf(in)
         IN  IF 5 <= hour /\ hour <= 7 THEN "A"
             ELSE IF 8 <= hour /\ hour <= 10 THEN "G"
             ELSE IF 13 <= hour /\ hour <= 15 THEN "B"
             ELSE IF 21 <= hour /\ hour <= 23 THEN "C"
             ELSE NearestShift30(hour)

(* the status table of the format; clean_daily_inout16 never calls it *)
determine_status_from_hours16(working_hours, stat_code) ==
    IF stat_code = "WO" THEN "Present"
    ELSE IF stat_code \in {"PH", "PL", "LI"} THEN "On Leave"
    ELSE IF stat_code = "UL" THEN "Absent"
    ELSE determine_status30(working_hours)

Row16(dir, r) ==
    LET user_id == IntStr(r.id)
        in_time == format_datetime(r.date, r.tin)
        out_time == format_datetime(r.date, r.tout)
        work_hours_decimal == calculate_working_hours30(in_time, out_time)
        rec == [date |-> r.date,
                employee |-> LookupDevice(dir, user_id),
                name |-> r.name,
                status |-> IF in_time = NoTime /\ out_time = NoTime THEN "Absent"
                           ELSE IF work_hours_decimal = 0 THEN "Absent"
                           ELSE determine_status30(work_hours_decimal),
                inTime |-> in_time,
                outTime |-> out_time,
                hours |-> format_working_hours(work_hours_decimal),
                shift |-> detect_shift_from_time16(in_time),
                overtime |-> calculate_overtime30(work_hours_decimal),
                raw |-> r.id,
                calc |-> work_hours_decimal,
                (* the Stat1 cell of the day: read at line 363, used nowhere *)
                code |-> r.stat]
    IN  IF r.id = "" THEN <<>>
        ELSE IF r.date = NoDate THEN <<>>
        ELSE <<rec>>

RECURSIVE Rows16(_, _)
Rows16(dir, rows) ==
    IF rows = <<>> THEN <<>>
    ELSE Row16(dir, Head(rows)) \o Rows16(dir, Tail(rows))

clean_daily_inout16(rows, dir) ==
    LET recs == Rows16(dir, rows)
    IN  IF recs = <<>> THEN Failed("EmptyResultError")
        ELSE Cleaned(recs)

(***************************************************************************)
(* clean_crystal_excel                                                     *)
(***************************************************************************)
(* a numeric time cell: the Excel serial m/1440 of minute m of the day, a *)
(* float below 1.  Serial cells are told from "HH:MM" cells by the offset. *)
SerialBase == 10000
Serial(m) == SerialBase + m
IsSerial(t) == t >= SerialBase

(* the minutes m whose serial, as a float, times 24 times 3600 falls just *)
(* below 60 * m                                                            *)
SerialShort ==
    {
     13, 26, 27, 31, 33, 52, 54, 62, 63, 65, 66, 85, 104, 108, 109, 115,
     123, 124, 125, 126, 130, 131, 132, 170, 171, 177, 185, 207, 208, 215,
     216, 217, 218, 219, 230, 246, 248, 250, 252, 260, 261, 262, 263, 264,
     295, 297, 309, 340, 342, 354, 369, 370, 371, 385, 387, 389, 391, 393,
     414, 415, 416, 430, 432, 434, 436, 438, 459, 460, 461, 475, 477, 479,
     481, 483, 492, 496, 500, 504, 505, 520, 522, 524, 526, 528, 537, 541,
     545, 549, 573, 590, 594, 618, 635, 639, 663, 680, 684, 708, 725, 729,
     733, 737, 738, 740, 741, 742, 770, 774, 778, 782, 783, 785, 786, 787,
     815, 819, 823, 827, 828, 830, 831, 832, 860, 864, 868, 872, 873, 875,
     876, 877, 905, 909, 913, 917, 918, 920, 921, 922, 950, 954, 958, 962,
     963, 965, 966, 984, 992, 995, 999, 1000, 1003, 1007, 1008, 1010, 1011,
     1029, 1037, 1040, 1044, 1045, 1048, 1052, 1053, 1055, 1056, 1074,
     1082, 1085, 1089, 1090, 1098, 1101, 1135, 1143, 1146, 1180, 1188,
     1191, 1225, 1233, 1236, 1270, 1278, 1281, 1315, 1323, 1326, 1360,
     1368, 1371, 1405, 1413, 1416}

(* the float product always falling just below the whole second *)
serial_total_seconds_short(m) == (60 * m) - 1

(* total_seconds = int(float(time_val) * 24 * 3600) *)
serial_total_seconds(m) == IF m \in SerialShort THEN (60 * m) - 1 ELSE 60 * m

(* a "HH:MM" cell or a serial cell.  A text that is no time ends in the    *)
(* last fallback with hours = 0 and minutes = 0, and 0:00 is replaced by   *)
(* 9:00 or 17:00.                                                          *)
format_timestamp(date, t, is_checkin) ==
    LET total_seconds == serial_total_seconds(t - SerialBase)
        hours == (total_seconds \div 3600) % 24
        minutes == (total_seconds % 3600) \div 60
        hm == IF t = BadTime THEN 0
              ELSE IF IsSerial(t) THEN (hours * 60) + minutes
              ELSE t
    IN  IF t = NoTime THEN NoTime
        ELSE IF hm = 0 THEN Stamp(date, IF is_checkin THEN 9 * 60 ELSE 17 * 60)
        ELSE Stamp(date, hm)

NoRow == -1

(* detect_date_row: the index of the first row with a day label, or None *)
detect_date_row(lay) == lay.date_row

(* the row index used when no date row was detected *)
FallbackRow == 5

calculate_overtime_crystal(c) ==
    IF c <= 0 THEN Blank
    ELSE LET overtime == c - 900
         IN  IF overtime <= 0 THEN Blank ELSE Text(overtime)

(* status_map.get(raw_status_s, raw_status_s); the keys written with the  *)
(* one-half sign are left out of the modelled cell values                 *)
status_map_crystal(s) ==
    IF s \in {"H", "HO", "WO"} THEN "Holiday"
    ELSE IF s = "A" THEN "Absent"
    ELSE IF s = "P" THEN "Present"
    ELSE IF s \in {"0.5P", ".5P", "HD", "HALF", "HP"} THEN "Half Day"
    ELSE IF s = "T" THEN "Terminated"
    ELSE IF s \in {"ML", "CO"} THEN "On Leave"
    ELSE s

RowCrystal(r) ==
    LET status_final == status_map_crystal(r.stat)
        check_in == format_timestamp(r.date, r.tin, TRUE)
        check_out == format_timestamp(r.date, r.tout, FALSE)
        work_hours_decimal == calculate_working_hours30(check_in, check_out)
        rec == [date |-> r.date,
                employee |-> r.id,
                name |-> r.name,
                status |-> status_final,
                inTime |-> check_in,
                outTime |-> check_out,
                hours |-> format_working_hours(work_hours_decimal),
                shift |-> "",
                overtime |-> calculate_overtime_crystal(work_hours_decimal),
                raw |-> r.id,
                calc |-> work_hours_decimal,
                code |-> r.stat]
    IN  IF r.date = NoDate \/ r.stat = "" THEN <<>>
        ELSE IF status_final \in {"Holiday", "Terminated"} THEN <<>>
        ELSE <<rec>>

RECURSIVE RowsCrystal(_)
RowsCrystal(rows) ==
    IF rows = <<>> THEN <<>>
    ELSE RowCrystal(Head(rows)) \o RowsCrystal(Tail(rows))

clean_crystal_excel(rows, lay) ==
    LET detected == detect_date_row(lay)
        (* build_date_map of the row taken as date row: the day columns of *)
        (* the file, or none when the fallback row carries no day label     *)
        date_map_empty == detected = NoRow /\ ~lay.row5_days
        recs == IF date_map_empty THEN <<>> ELSE RowsCrystal(rows)
    IN  IF detected = NoRow /\ ~(FallbackRow < lay.height)
        THEN Failed("StructureError")
        ELSE IF recs = <<>> THEN Failed("EmptyResultError")
        ELSE Cleaned(recs)

(***************************************************************************)
(* The uploaded files                                                      *)
(***************************************************************************)
InGrid == {h * 60 + m : h \in 0..23, m \in {0, 30}} \cup {NoTime}
OutGrid == {h * 60 + m : h \in 0..23, m \in {0, 29, 30}} \cup {NoTime}

GridRows ==
    {[id |-> "101", veil |-> "", name |-> "Asha", date |-> 1,
      tin |-> a, tout |-> b, stat |-> "", shift |-> "G"] : a \in InGrid, b \in OutGrid}

FieldRows ==
    [id : RawIds \cup {""}, veil : {"", "V1", "Z9"}, name : {"", "Asha"},
     date : {NoDate, 1}, tin : {NoTime, 540, 1320}, tout : {NoTime, 360, 1080},
     stat : {"", "P", "WO", "PL"}, shift : {"", "O"}]

(* several punch rows of one day, for the consolidation of a group *)
MaxRows == 2

PunchRows ==
    [id : {"101", "999"}, veil : {""}, name : {"Asha"}, date : {1},
     tin : {NoTime, 540, 1320}, tout : {NoTime, 360, 1080}, stat : {""},
     shift : {"G"}]

Files ==
    {<<r>> : r \in GridRows \cup FieldRows}
        \cup UNION {[1..n -> PunchRows] : n \in 2..MaxRows}

(* the grid of a matrix report: where its date row is, how many rows it   *)
(* has, and whether row 5 carries a cell that reads as a day although the  *)
(* search did not see it (the search starts below the report range row)    *)
DatedLayout == [date_row |-> 3, height |-> 12, row5_days |-> FALSE]

NoUpload ==
    /\ branch = ""
    /\ crystal_format = FALSE
    /\ step = "none"
    /\ cleaned_file_docs = 0
    /\ data_imports = {}
    /\ started = {}
    /\ raised = ""
    /\ dir_reads = <<>>
    /\ current_crystal_upload = None
    /\ attendance = {}
    /\ pending = {}
    /\ monitor = NoMonitor
    /\ cancel = NoCancel

Idle ==
    /\ directory = Employees
    /\ parser = "none"
    /\ outcome = "idle"
    /\ records = <<>>
    /\ error = ""
    /\ lookups = 0
    /\ unresolved = <<>>
    /\ effective = NoRequest
    /\ NoUpload

Init ==
    /\ file \in Files
    /\ layout = DatedLayout
    /\ columns = TRUE
    /\ request = NoRequest
    /\ Idle

Returned(p, res) ==
    /\ outcome = "idle"
    /\ parser' = p
    /\ outcome' = IF res.ok THEN "ok" ELSE "error"
    /\ records' = res.recs
    /\ error' = res.err
    /\ lookups' = res.lookups
    /\ unresolved' = res.warned
    /\ effective' = res.span
    /\ UNCHANGED <<file, directory, columns, request, layout>>

(* a cleaner called on its own, outside a submission *)
Finish(p, res) ==
    /\ step = "none"
    /\ Returned(p, res)
    /\ UNCHANGED <<upload_vars, import_vars, dir_reads>>

Run30 == Finish("inout30", clean_daily_inout30(file, directory))

Run10 == Finish("inout10", clean_daily_inout10(file, directory, columns, request))

Run13 == Finish("inout13", clean_daily_inout13(file, directory, columns, request))

Run14 == Finish("inout14", clean_daily_inout14(file, directory, columns, request))

Run7_2 == Finish("inout7_2", clean_daily_inout7_2(file, directory))

Run12 == Finish("inout12", clean_daily_inout12(file, directory))

Run16 == Finish("inout16", clean_daily_inout16(file, directory))

RunCrystal == Finish("crystal", clean_crystal_excel(file, layout))

Next == Run30 \/ Run10 \/ Run13 \/ Run14 \/ Run7_2 \/ Run12 \/ Run16 \/ RunCrystal

Spec == Init /\ [][Next]_vars

(***************************************************************************)
(* Runs of the cleaners that take a user date range, on files whose rows   *)
(* span several days, with and without the required columns.               *)
(***************************************************************************)
MaxDay == 4

RequestDates == {NoDate, BadDate} \cup 1..MaxDay

RangeRows ==
    [id : {"101", "999"}, veil : {""}, name : {"Asha"},
     date : {NoDate} \cup 2..(MaxDay - 1), tin : {540}, tout : {1080},
     stat : {""}, shift : {"G"}]

RangeFiles == UNION {[1..n -> RangeRows] : n \in 1..MaxRows}

InitRange ==
    /\ layout = DatedLayout
    /\ file \in RangeFiles
    /\ columns \in BOOLEAN
    /\ request \in RequestDates \X RequestDates
    /\ Idle

NextRange == Run10 \/ Run13 \/ Run14

SpecRange == InitRange /\ [][NextRange]_vars

(***************************************************************************)
(* Runs of clean_crystal_excel on grids with and without a date row and on *)
(* time cells that are no times.                                           *)
(***************************************************************************)
Layouts ==
    {DatedLayout}
        \cup {lay \in [date_row : {NoRow},
                        height : {FallbackRow, FallbackRow + 1, 12},
                        row5_days : BOOLEAN] :
                  lay.row5_days => FallbackRow < lay.height}

CrystalRows ==
    [id : {"101", "999"}, veil : {""}, name : {"Asha"}, date : {NoDate, 1},
     tin : {NoTime, BadTime, 0, 540}, tout : {NoTime, BadTime, 0, 1080},
     stat : {"", "P", "A", "WO"}, shift : {""}]

InitCrystal ==
    /\ file \in {<<r>> : r \in CrystalRows}
    /\ layout \in Layouts
    /\ columns = TRUE
    /\ request = NoRequest
    /\ Idle

NextCrystal == RunCrystal

SpecCrystal == InitCrystal /\ [][NextCrystal]_vars

(***************************************************************************)
(* Runs of clean_crystal_excel on a sheet whose IN cell is a numeric Excel *)
(* time, for every minute of the day.                                      *)
(***************************************************************************)
SerialRows ==
    [id : {"101"}, veil : {""}, name : {"Asha"}, date : {1},
     tin : {Serial(m) : m \in 0..(DayMinutes - 1)}, tout : {NoTime},
     stat : {"P"}, shift : {""}]

InitSerial ==
    /\ file \in {<<r>> : r \in SerialRows}
    /\ layout = DatedLayout
    /\ columns = TRUE
    /\ request = NoRequest
    /\ Idle

NextSerial == RunCrystal

SpecSerial == InitSerial /\ [][NextSerial]_vars

(***************************************************************************)
(* Submission of a Crystal Attendance Upload: hooks.py runs                *)
(* process_uploaded_file on on_submit.  The handler is followed step by    *)
(* step, since each step can raise and leaves documents behind.            *)
(***************************************************************************)
UploadName == "CAU-0001"

Branches ==
    {"Vedanta Jharsuguda P2", "DOLVI", "Balco", "Bellari obp2",
     "JSW Jharsuguda", "Jsol Angul", "polycab", "Head Office"}

(* the if/elif chain on doc.branch, for the cleaners of this module *)
ChooseCleaner(b) ==
    CASE b \in {"Vedanta Jharsuguda P2", "Vedanta Jharsuguda P1"} -> "inout14"
      [] b \in {"DOLVI", "JSW DOLVI", "JSW Dolvi BF"} -> "inout13"
      [] b \in {"Balco", "Balco CH"} -> "inout10"
      [] b \in {"Bellari obp2"} -> "inout30"
      [] b \in {"JSW Jharsuguda"} -> "inout12"
      [] b \in {"Jsol Angul", "JSPL Angul Sinter O&M", "Jspl & Jsol angul",
                "JSPL Angul BF 2 JSOL - VEIL"} -> "inout7_2"
      [] b \in {"polycab", "Polycab OFC Halol", "Polycab WRM Halol"} -> "inout16"
      [] OTHER -> "crystal"

(* the call of the chosen cleaner: input_path, output_path, company and    *)
(* branch only, never a custom date range                                  *)
CallCleaner(p) ==
    CASE p = "inout14" -> clean_daily_inout14(file, directory, columns, NoRequest)
      [] p = "inout13" -> clean_daily_inout13(file, directory, columns, NoRequest)
      [] p = "inout10" -> clean_daily_inout10(file, directory, columns, NoRequest)
      [] p = "inout30" -> clean_daily_inout30(file, directory)
      [] p = "inout12" -> clean_daily_inout12(file, directory)
      [] p = "inout7_2" -> clean_daily_inout7_2(file, directory)
      [] p = "inout16" -> clean_daily_inout16(file, directory)
      [] OTHER -> clean_crystal_excel(file, layout)

(* Step 1: "if not doc.crystal_format: frappe.throw(...)" *)
Step1_GetUploadedFile ==
    /\ step = "submitted"
    /\ step' = IF crystal_format THEN "clean" ELSE "raised"
    /\ raised' = IF crystal_format THEN "" ELSE "ValidationError"
    /\ UNCHANGED <<import_vars, dir_reads, file, directory, parser, outcome, records, columns, request,
                   error, lookups, unresolved, effective, layout, branch,
                   crystal_format, cleaned_file_docs, data_imports, started>>

Step2Exit_swallowed(res) == "cleaned"

(* an exception of the cleaner leaves the try block through               *)
(* "except Exception as e: append_log(...); raise"                         *)
Step2Exit(res) == IF res.ok THEN "cleaned" ELSE "raised"

(* Step 2: the cleaner chosen by the branch runs to its end *)
Step2_CleanFile ==
    /\ step = "clean"
    /\ LET p == ChooseCleaner(branch)
           res == CallCleaner(p)
       IN  /\ Returned(p, res)
           /\ step' = Step2Exit(res)
           /\ raised' = IF res.ok THEN "" ELSE res.err
    /\ UNCHANGED <<import_vars, dir_reads, branch, crystal_format, cleaned_file_docs, data_imports,
                   started>>

(* Step 3, first half: the cleaned workbook is saved as a File document *)
Step3_SaveCleanedFile ==
    /\ step = "cleaned"
    /\ cleaned_file_docs' = cleaned_file_docs + 1
    /\ step' = "filed"
    /\ UNCHANGED <<import_vars, dir_reads, file, directory, parser, outcome, records, columns, request,
                   error, lookups, unresolved, effective, layout, branch,
                   crystal_format, data_imports, started, raised>>

(* Step 3, second half: the Data Import is saved and linked to the upload *)
Step3_CreateDataImport ==
    /\ step = "filed"
    /\ data_imports' = data_imports \cup
           {[name |-> "DI-0001", custom_crystal_upload_ref |-> UploadName]}
    /\ step' = "import"
    /\ UNCHANGED <<import_vars, dir_reads, file, directory, parser, outcome, records, columns, request,
                   error, lookups, unresolved, effective, layout, branch,
                   crystal_format, cleaned_file_docs, started, raised>>

(* after_insert_attendance: the hook of every Attendance insert stamps the *)
(* record with the flag of the process that inserts it, if the flag is set *)
after_insert_attendance(flag) == IF flag # None THEN flag ELSE ""

(* an Attendance inserted and submitted (submit_after_import = 1) by the   *)
(* process whose flag is given                                             *)
Inserted(name, via, flag) ==
    [name |-> name, via |-> via, docstatus |-> 1,
     custom_crystal_upload_ref |-> after_insert_attendance(flag)]

(* Step 4, "frappe.flags.current_crystal_upload = doc.name"; the Data      *)
(* Import holds one row per record of the cleaned file                     *)
Step4_SetFlag ==
    /\ step = "import"
    /\ step' = "importing"
    /\ current_crystal_upload' = UploadName
    /\ pending' = DOMAIN records
    /\ UNCHANGED <<monitor, cancel, dir_reads, file, directory, parser, outcome, records, columns,
                   request, error, lookups, unresolved, effective, layout, branch,
                   crystal_format, cleaned_file_docs, data_imports, started,
                   raised, attendance>>

(* start_import inserts one row of the Data Import, inside the request *)
ImportInsert ==
    /\ step = "importing"
    /\ \E row \in pending :
          /\ attendance' = attendance \cup
                 {Inserted(row, "DI-0001", current_crystal_upload)}
          /\ pending' = pending \ {row}
    /\ UNCHANGED <<monitor, cancel, dir_reads, file, directory, parser, outcome, records, columns,
                   request, error, lookups, unresolved, effective, layout,
                   upload_vars, current_crystal_upload>>

(* the flag left as it is when Step 4 raises *)
Step4_Flag_kept(thrown) == IF thrown THEN current_crystal_upload ELSE None

(* "finally: frappe.flags.current_crystal_upload = None  # always clear" *)
Step4_Flag(thrown) == None

(* Step 4 ends: start_import and the enqueue of the monitor have returned, *)
(* or one of them raised and the exception is logged and raised again; the *)
(* rows not inserted by then are the rows the import failed on             *)
Step4_TriggerImport ==
    /\ step = "importing"
    /\ \E thrown \in BOOLEAN :
          /\ started' = IF thrown THEN started ELSE started \cup {"DI-0001"}
          /\ step' = IF thrown THEN "raised" ELSE "done"
          /\ raised' = IF thrown THEN "ImportError" ELSE ""
          /\ current_crystal_upload' = Step4_Flag(thrown)
    /\ UNCHANGED <<monitor, cancel, dir_reads, file, directory, parser, outcome, records, columns, request,
                   error, lookups, unresolved, effective, layout, branch,
                   crystal_format, cleaned_file_docs, data_imports,
                   attendance, pending>>

FlowRows ==
    [id : {"101", "999"}, veil : {""}, name : {"Asha"}, date : {NoDate, 1},
     tin : {NoTime, 540}, tout : {1080}, stat : {""}, shift : {"G"}]

InitFlow ==
    /\ file \in {<<r>> : r \in FlowRows}
    /\ layout \in Layouts
    /\ columns \in BOOLEAN
    /\ request = NoRequest
    /\ directory = Employees
    /\ parser = "none"
    /\ outcome = "idle"
    /\ records = <<>>
    /\ error = ""
    /\ lookups = 0
    /\ unresolved = <<>>
    /\ effective = NoRequest
    /\ branch \in Branches
    /\ crystal_format \in BOOLEAN
    /\ step = "submitted"
    /\ cleaned_file_docs = 0
    /\ data_imports = {}
    /\ started = {}
    /\ raised = ""
    /\ dir_reads = <<>>
    /\ current_crystal_upload = None
    /\ attendance = {}
    /\ pending = {}
    /\ monitor = NoMonitor
    /\ cancel = NoCancel

NextFlow ==
    \/ Step1_GetUploadedFile
    \/ Step2_CleanFile
    \/ Step3_SaveCleanedFile
    \/ Step3_CreateDataImport
    \/ Step4_SetFlag
    \/ ImportInsert
    \/ Step4_TriggerImport

SpecFlow == InitFlow /\ [][NextFlow]_vars

(* ---- the Attendance table during and after the import ---- *)

(* flags of the other processes that insert Attendance: a user's form      *)
(* (no flag) or the request that submits another upload                    *)
OtherUpload == "CAU-0002"

(* a row of the Data Import inserted after process_uploaded_file returned: *)
(* by the import's background job or by a retry of the rows that failed,   *)
(* in a process whose frappe.flags were never set by Step 4                *)
ImportLater ==
    /\ step = "done"
    /\ \E row \in pending :
          /\ attendance' = attendance \cup {Inserted(row, "DI-0001", None)}
          /\ pending' = pending \ {row}
    /\ UNCHANGED <<monitor, cancel, dir_reads, file, directory, parser, outcome, records, columns,
                   request, error, lookups, unresolved, effective, layout,
                   upload_vars, current_crystal_upload>>

(* an Attendance inserted for another reason, in another process *)
OtherInsert ==
    /\ \E flag \in {None, OtherUpload} :
          LET via == IF flag = None THEN "form" ELSE "DI-0002"
          IN  /\ \A a \in attendance : a.via # via
              /\ attendance' = attendance \cup {Inserted(0, via, flag)}
    /\ UNCHANGED <<monitor, cancel, dir_reads, file, directory, parser, outcome, records, columns,
                   request, error, lookups, unresolved, effective, layout,
                   upload_vars, current_crystal_upload, pending>>

NextImport ==
    \/ NextFlow
    \/ ImportLater
    \/ OtherInsert

SpecImport == InitFlow /\ [][NextImport]_vars

(* ---- cancel_uploaded_file ---- *)

(* bound on failed_count: the passes of the deletion loop followed *)
MaxFailed == 3

(* filters={"custom_crystal_upload_ref": doc.name} *)
Referenced(recs) == {a \in recs : a.custom_crystal_upload_ref = UploadName}

(* att_doc.cancel() on the submitted records of the upload; a failure is   *)
(* passed over and leaves the record submitted                             *)
Cancelled(recs, faults) ==
    {IF a \in Referenced(recs) /\ a.docstatus = 1 /\ faults[a.name] = "none"
     THEN [a EXCEPT !.docstatus = 2] ELSE a : a \in recs}

(* a bulk deletion that spares the submitted records *)
bulk_delete_unsubmitted(recs) ==
    {a \in recs : a \notin Referenced(recs) \/ a.docstatus = 1}

(* "DELETE FROM `tabAttendance` WHERE custom_crystal_upload_ref = %s" *)
bulk_delete(recs) == recs \ Referenced(recs)

(* the count and the choice of the deletion path; above 5000 records the   *)
(* submitted ones are cancelled and all are deleted by one statement,      *)
(* which fails when a record cannot be deleted and falls back to the loop  *)
Cancel_Start ==
    /\ cancel.pc = "start"
    /\ LET total_count == Cardinality(Referenced(attendance)) + cancel.bulk
           bulk_err == \E a \in Referenced(attendance) :
                           cancel.faults[a.name] = "all"
       IN  IF total_count = 0
           THEN /\ cancel' = [cancel EXCEPT !.pc = "imports"]
                /\ UNCHANGED attendance
           ELSE IF total_count > 5000
           THEN IF bulk_err
                THEN /\ attendance' = Cancelled(attendance, cancel.faults)
                     /\ cancel' = [cancel EXCEPT !.pc = "loop",
                                                 !.total_count = total_count,
                                                 !.failure_logged = TRUE]
                ELSE /\ attendance' =
                            bulk_delete(Cancelled(attendance, cancel.faults))
                     /\ cancel' = [cancel EXCEPT !.pc = "imports",
                                                 !.bulk = 0,
                                                 !.total_count = total_count,
                                                 !.deleted_count = total_count]
           ELSE /\ cancel' = [cancel EXCEPT !.pc = "loop",
                                            !.total_count = total_count]
                /\ UNCHANGED attendance
    /\ UNCHANGED <<monitor, dir_reads, file, directory, parser, outcome, records, columns,
                   request, error, lookups, unresolved, effective, layout,
                   upload_vars, current_crystal_upload, pending>>

(* one pass of "while True": the first 1000 records of the upload, from    *)
(* offset 0 in name order; each is cancelled if submitted and deleted by   *)
(* delete_doc or, when that raises, by the SQL fallback; a record for      *)
(* which both raise is counted in failed_count and stays                   *)
Cancel_Pass ==
    /\ cancel.pc = "loop"
    /\ (Referenced(attendance) # {}) \/ (cancel.bulk > 0)
    /\ cancel.failed_count < MaxFailed
    /\ LET attendances == Referenced(attendance)
           failed == {a \in attendances : cancel.faults[a.name] = "all"}
           room == 1000 - Cardinality(attendances)
           plain == IF cancel.bulk < room THEN cancel.bulk ELSE room
       IN  /\ attendance' = (attendance \ attendances) \cup failed
           /\ cancel' = [cancel EXCEPT
                  !.bulk = @ - plain,
                  !.deleted_count =
                      @ + Cardinality(attendances \ failed) + plain,
                  !.failed_count = @ + Cardinality(failed),
                  !.failure_logged = @ \/ (failed # {})]
    /\ UNCHANGED <<monitor, dir_reads, file, directory, parser, outcome, records, columns,
                   request, error, lookups, unresolved, effective, layout,
                   upload_vars, current_crystal_upload, pending>>

(* "if not attendances: break", then the Data Imports of the upload are    *)
(* deleted (a failure is logged), the cleaned files removed, and the       *)
(* handler returns                                                         *)
Cancel_Imports ==
    /\ \/ cancel.pc = "imports"
       \/ /\ cancel.pc = "loop"
          /\ Referenced(attendance) = {}
          /\ cancel.bulk = 0
    /\ data_imports' = IF cancel.di_fails THEN data_imports
                       ELSE data_imports \ Referenced(data_imports)
    /\ cancel' = [cancel EXCEPT
           !.pc = "returned",
           !.failure_logged =
               @ \/ (cancel.di_fails /\ (Referenced(data_imports) # {}))]
    /\ UNCHANGED <<monitor, dir_reads, file, directory, parser, outcome, records, columns,
                   request, error, lookups, unresolved, effective, layout,
                   branch, crystal_format, step, cleaned_file_docs, started,
                   raised, current_crystal_upload, attendance, pending>>

(* a call of the handler raises (frappe.db.count, frappe.get_all,          *)
(* append_log): "except Exception as e" logs the error through append_log  *)
(* and frappe.log_error, which are database writes outside any try, and    *)
(* does not raise again                                                    *)
Cancel_Except ==
    /\ cancel.pc \in {"start", "loop", "imports"}
    /\ \E log_raises \in BOOLEAN :
          cancel' = [cancel EXCEPT
              !.pc = IF log_raises THEN "raised" ELSE "returned",
              !.failure_logged = @ \/ ~log_raises]
    /\ UNCHANGED <<monitor, dir_reads, file, directory, parser, outcome, records, columns,
                   request, error, lookups, unresolved, effective, layout,
                   upload_vars, current_crystal_upload, attendance, pending>>

(* a cancelled upload: its import is over; the Attendance table holds any  *)
(* mix of draft, submitted and cancelled records of it and of another      *)
(* upload                                                                  *)
InitCancel ==
    /\ file = <<>>
    /\ layout = DatedLayout
    /\ columns = TRUE
    /\ request = NoRequest
    /\ directory = Employees
    /\ parser = "none"
    /\ outcome = "idle"
    /\ records = <<>>
    /\ error = ""
    /\ lookups = 0
    /\ unresolved = <<>>
    /\ effective = NoRequest
    /\ branch = ""
    /\ crystal_format = FALSE
    /\ step = "done"
    /\ cleaned_file_docs = 1
    /\ data_imports \in SUBSET
           {[name |-> "DI-0001", custom_crystal_upload_ref |-> UploadName],
            [name |-> "DI-0002", custom_crystal_upload_ref |-> OtherUpload]}
    /\ started = {"DI-0001"}
    /\ raised = ""
    /\ dir_reads = <<>>
    /\ current_crystal_upload = None
    /\ \E present \in SUBSET (1..2), docstatus \in [1..2 -> 0..2],
          ref \in [1..2 -> {UploadName, OtherUpload}] :
          attendance =
              {[name |-> n,
                via |-> IF ref[n] = UploadName THEN "DI-0001" ELSE "DI-0002",
                docstatus |-> docstatus[n],
                custom_crystal_upload_ref |-> ref[n]] : n \in present}
    /\ pending = {}
    /\ monitor = NoMonitor
    /\ \E bulk \in {0, 4999, 5000}, di_fails \in BOOLEAN,
          faults \in [1..2 -> {"none", "doc", "all"}] :
          cancel = [NoCancel EXCEPT !.pc = "start", !.bulk = bulk,
                                    !.faults = faults, !.di_fails = di_fails]

NextCancel ==
    \/ Cancel_Start
    \/ Cancel_Pass
    \/ Cancel_Imports
    \/ Cancel_Except

SpecCancel == InitCancel /\ [][NextCancel]_vars

(* ---- log_import_results ---- *)

(* bound on the iterations of the monitor that raise *)
MaxErrors == 2

(* get_import_status_summary: the status of the Data Import, "Pending"     *)
(* when it is empty, "Error" when reading it raises (the Data Import is    *)
(* missing)                                                                *)
get_import_status_summary(status) ==
    IF status = "missing" THEN "Error"
    ELSE IF status = "" THEN "Pending"
    ELSE status

(* a status update at every poll *)
status_update_due_always(elapsed_time, last_status_update) == TRUE

(* "if elapsed_time - last_status_update >= status_update_interval" *)
status_update_due(elapsed_time, last_status_update) ==
    elapsed_time - last_status_update >= 30

(* one iteration of "while elapsed_time < max_wait_time", run while the    *)
(* job has not exceeded its timeout: a status update when one is due, then *)
(* the final entry and break on a terminal status, else sleep and          *)
(* elapsed_time += check_interval; an iteration that raises (append_log    *)
(* before its entry is written, or the failure details after the final     *)
(* entry) is logged by "except Exception" and advances elapsed_time too    *)
Monitor_Poll ==
    /\ monitor.pc = "polling"
    /\ monitor.elapsed_time < 1800
    /\ (monitor.timeout = 0) \/ (2 + monitor.elapsed_time < monitor.timeout)
    /\ \E read \in IF get_import_status_summary(monitor.status) = "Pending"
                    THEN {"Pending", "", "Success", "Partial Success",
                          "Error", "Timed Out", "missing"}
                    ELSE {monitor.status},
          raises \in {"no", "before", "after"} :
          LET status == get_import_status_summary(read)
              due == status_update_due(monitor.elapsed_time,
                                       monitor.last_status_update)
              terminal == status \in {"Success", "Partial Success",
                                      "Error", "Timed Out"}
              polled == [monitor EXCEPT !.status = read, !.polls = @ + 1]
              updated == IF due
                         THEN [polled EXCEPT
                                  !.last_status_update = monitor.elapsed_time,
                                  !.progress_at = monitor.elapsed_time,
                                  !.gap = IF (monitor.progress_at # -1) /\
                                             (monitor.elapsed_time -
                                                monitor.progress_at < @)
                                          THEN monitor.elapsed_time -
                                                 monitor.progress_at
                                          ELSE @]
                         ELSE polled
          IN  /\ (raises # "no") => (monitor.errors < MaxErrors)
              /\ (raises = "before") => (due \/ terminal)
              /\ (raises = "after") => terminal
              /\ monitor' =
                    IF raises = "before"
                    THEN [polled EXCEPT !.errors = @ + 1,
                                        !.elapsed_time = @ + 5]
                    ELSE IF terminal /\ (raises = "after")
                    THEN [updated EXCEPT !.final = @ + 1,
                                         !.errors = @ + 1,
                                         !.elapsed_time = @ + 5]
                    ELSE IF terminal
                    THEN [updated EXCEPT !.final = @ + 1, !.pc = "done"]
                    ELSE [updated EXCEPT !.elapsed_time = @ + 5]
    /\ UNCHANGED <<dir_reads, file, directory, parser, outcome, records, columns,
                   request, error, lookups, unresolved, effective, layout,
                   upload_vars, current_crystal_upload, attendance, pending,
                   cancel>>

(* "if elapsed_time >= max_wait_time": the monitoring-timed-out entry *)
Monitor_TimedOut ==
    /\ monitor.pc = "polling"
    /\ monitor.elapsed_time >= 1800
    /\ monitor' = [monitor EXCEPT !.pc = "done", !.timed_out = TRUE]
    /\ UNCHANGED <<dir_reads, file, directory, parser, outcome, records, columns,
                   request, error, lookups, unresolved, effective, layout,
                   upload_vars, current_crystal_upload, attendance, pending,
                   cancel>>

(* the job was enqueued with timeout=600: once it has run that long (2     *)
(* seconds before the loop, elapsed_time in it) the worker ends it         *)
Monitor_JobTimeout ==
    /\ monitor.pc = "polling"
    /\ monitor.timeout # 0
    /\ 2 + monitor.elapsed_time >= monitor.timeout
    /\ monitor' = [monitor EXCEPT !.pc = "killed"]
    /\ UNCHANGED <<dir_reads, file, directory, parser, outcome, records, columns,
                   request, error, lookups, unresolved, effective, layout,
                   upload_vars, current_crystal_upload, attendance, pending,
                   cancel>>

(* the import of the upload was started and the monitor begins to poll:    *)
(* as the job of Step 4 (timeout=600) or run without a job timeout         *)
InitMonitor ==
    /\ file = <<>>
    /\ layout = DatedLayout
    /\ columns = TRUE
    /\ request = NoRequest
    /\ directory = Employees
    /\ parser = "none"
    /\ outcome = "idle"
    /\ records = <<>>
    /\ error = ""
    /\ lookups = 0
    /\ unresolved = <<>>
    /\ effective = NoRequest
    /\ branch = ""
    /\ crystal_format = FALSE
    /\ step = "done"
    /\ cleaned_file_docs = 1
    /\ data_imports =
           {[name |-> "DI-0001", custom_crystal_upload_ref |-> UploadName]}
    /\ started = {"DI-0001"}
    /\ raised = ""
    /\ dir_reads = <<>>
    /\ current_crystal_upload = None
    /\ attendance = {}
    /\ pending = {}
    /\ cancel = NoCancel
    /\ \E timeout \in {0, 600} :
          monitor = [NoMonitor EXCEPT !.pc = "polling", !.timeout = timeout]

NextMonitor ==
    \/ Monitor_Poll
    \/ Monitor_TimedOut
    \/ Monitor_JobTimeout

SpecMonitor == InitMonitor /\ [][NextMonitor]_vars

(* a running job, and the worker that times it out, keep taking steps *)
SpecMonitorJob == SpecMonitor /\ WF_vars(NextMonitor)

(* ---- clean_daily_inout2: the sequential block parser ---- *)

(* the rows of the sheet after the 14 rows of its heading: columns 1, 4    *)
(* and 10; a punch holds in column 1 the Excel serial of its date and time *)
(* (here in minutes: Stamp(day, minute))                                   *)
MaxSheet == 4

Sheet2Rows ==
    {[c1 |-> Text("ABHI MAJHI"), c4 |-> "ID:", c10 |-> Num(101)],
     [c1 |-> Text("RAVI DAS"), c4 |-> "ID:", c10 |-> Num(999)],
     [c1 |-> Text("RAVI DAS"), c4 |-> "ID:", c10 |-> Blank],
     [c1 |-> Text("AB"), c4 |-> "ID:", c10 |-> Num(999)],
     [c1 |-> Blank, c4 |-> "ID:", c10 |-> Num(999)],
     [c1 |-> Blank, c4 |-> "", c10 |-> Blank]}
    \cup {[c1 |-> Num(Stamp(45001, t)), c4 |-> c, c10 |-> Blank] :
             t \in {540, 1020}, c \in {"Terminal 1", "Terminal 2"}}
    \cup {[c1 |-> Num(Stamp(45001, 600)), c4 |-> "Door", c10 |-> Blank]}

(* extract_employee_info: <<emp_name, gate_pass_id>>, "" for None; a name  *)
(* needs more than 3 characters and a letter                               *)
extract_employee_info(row) ==
    <<IF (row.c1.k = "text") /\ (Len(row.c1.v) > 3) THEN row.c1.v ELSE "",
      IF row.c10.k = "num" THEN ToString(row.c10.v)
      ELSE IF row.c10.k = "text" THEN row.c10.v
      ELSE "">>

is_employee_header_row(row) == row.c4 = "ID:"

(* a number between 40000 and 50000 in column 1 *)
is_punch_row(row) ==
    /\ row.c1.k = "num"
    /\ Stamp(40000, 0) < row.c1.v
    /\ row.c1.v < Stamp(50000, 0)

identify_punch_type(row) ==
    IF row.c4 = "Terminal 1" THEN "IN"
    ELSE IF row.c4 = "Terminal 2" THEN "OUT"
    ELSE ""

(* Step 3: the punches in sheet order, each under the key                  *)
(* (current_gate_pass, current_employee) of the moment it is read          *)
RECURSIVE employee_punches2(_, _, _, _)
employee_punches2(rows, i, current_employee, current_gate_pass) ==
    IF i > Len(rows) THEN <<>>
    ELSE LET row == rows[i]
             info == extract_employee_info(row)
         IN  IF is_employee_header_row(row)
             THEN IF (info[1] # "") /\ (info[2] # "")
                  THEN employee_punches2(rows, i + 1, info[1], info[2])
                  ELSE employee_punches2(rows, i + 1, current_employee,
                                         current_gate_pass)
             ELSE IF /\ is_punch_row(row)
                     /\ current_employee # ""
                     /\ current_gate_pass # ""
                     /\ identify_punch_type(row) # ""
                  THEN <<[row |-> i, gate_pass |-> current_gate_pass,
                          emp_name |-> current_employee,
                          punch_dt |-> row.c1.v,
                          punch_type |-> identify_punch_type(row)]>>
                       \o employee_punches2(rows, i + 1, current_employee,
                                            current_gate_pass)
                  ELSE employee_punches2(rows, i + 1, current_employee,
                                         current_gate_pass)

(* Step 4: one record per key and date, keys and dates in the order of     *)
(* their first punch, with the first IN and the last OUT; the Employee is  *)
(* looked up in the cache loaded at the start.  The ghost field rows holds *)
(* the sheet rows of the punches of the record.  Working hours, status,    *)
(* shift and overtime are computed from in_time and out_time alone and are *)
(* left out.                                                               *)
clean_daily_inout2(rows, dir) ==
    LET punches == employee_punches2(rows, 1, "", "")
        Key(p) == <<p.gate_pass, p.emp_name>>
        Day(p) == p.punch_dt \div DayMinutes
        FirstOfKey(j) == \A k \in 1..(j - 1) : Key(punches[k]) # Key(punches[j])
        FirstOfDay(j) ==
            \A k \in 1..(j - 1) :
                (Key(punches[k]) # Key(punches[j])) \/
                (Day(punches[k]) # Day(punches[j]))
        Rec(j) ==
            LET daily == {k \in 1..Len(punches) :
                             (Key(punches[k]) = Key(punches[j])) /\
                             (Day(punches[k]) = Day(punches[j]))}
                ins == {punches[k].punch_dt : k \in
                           {k \in daily : punches[k].punch_type = "IN"}}
                outs == {punches[k].punch_dt : k \in
                           {k \in daily : punches[k].punch_type = "OUT"}}
            IN  [date |-> Day(punches[j]),
                 employee |-> LookupDevice(employee_cache10(dir),
                                           punches[j].gate_pass),
                 name |-> punches[j].emp_name,
                 gate_pass |-> punches[j].gate_pass,
                 tin |-> IF ins = {} THEN NoTime ELSE SetMin(ins),
                 tout |-> IF outs = {} THEN NoTime ELSE SetMax(outs),
                 rows |-> {punches[k].row : k \in daily}]
        RECURSIVE OfKey(_, _)
        OfKey(j, k) ==
            IF k > Len(punches) THEN <<>>
            ELSE (IF (Key(punches[k]) = Key(punches[j])) /\ FirstOfDay(k)
                  THEN <<Rec(k)>> ELSE <<>>) \o OfKey(j, k + 1)
        RECURSIVE Records(_)
        Records(j) ==
            IF j > Len(punches) THEN <<>>
            ELSE (IF FirstOfKey(j) THEN OfKey(j, j) ELSE <<>>)
                 \o Records(j + 1)
    IN  IF Records(1) = <<>> THEN Failed("ValueError")
        ELSE Cleaned(Records(1))

Run2 == Finish("inout2", clean_daily_inout2(file, directory))

Init2 ==
    /\ file \in UNION {[1..n -> Sheet2Rows] : n \in 0..MaxSheet}
    /\ layout = DatedLayout
    /\ columns = TRUE
    /\ request = NoRequest
    /\ Idle

Spec2 == Init2 /\ [][Run2]_vars

(***************************************************************************)
(* Properties                                                              *)
(***************************************************************************)
Done == outcome # "idle"

Recs == IF outcome = "ok" THEN Range(records) ELSE {}

(* cleaners that keep the worked time in minutes; the others keep the      *)
(* decimal hours rounded to hundredths                                     *)
InMinutes(p) == p \in {"inout10", "inout13", "inout12"}

BothPunches(r) == r.inTime # NoTime /\ r.outTime # NoTime

(* minutes from first_in to last_out, a last_out at or before first_in     *)
(* taken on the next day                                                   *)
OvernightMinutes(r) ==
    LET d == (r.outTime - r.inTime) % DayMinutes
    IN  IF d = 0 THEN DayMinutes ELSE d

(* the worked hours of a record, in hundredths, as the cleaner computed them *)
HoursOf(p, r) == IF InMinutes(p) THEN Round2(r.calc) ELSE r.calc

(* C1: whenever both punches exist and last_out <= first_in (equality      *)
(* included) exactly 24 hours are added to last_out once, so the worked    *)
(* time is the positive time from first_in to last_out of the next day.    *)
C1_OvernightAddsOneDay ==
    \A r \in Recs :
        BothPunches(r) =>
            /\ r.calc > 0
            /\ r.calc = IF InMinutes(parser) THEN OvernightMinutes(r)
                        ELSE Round2(OvernightMinutes(r))

(* C2: for last_out after first_in the Working Hours cell is the number    *)
(* (last_out - first_in) in decimal hours rounded to 2 decimals.           *)
C2_WorkingHoursDecimal ==
    \A r \in Recs :
        (/\ BothPunches(r)
         /\ r.outTime \div DayMinutes = r.inTime \div DayMinutes
         /\ r.outTime > r.inTime) =>
            r.hours = Num(Round2(r.outTime - r.inTime))

(* C3: a record without first-in or without last-out has a blank Working   *)
(* Hours cell.                                                             *)
C3_MissingPunchBlankHours ==
    \A r \in Recs : ~BothPunches(r) => r.hours = Blank

(* h >= tenths/10 hours, on the exact worked value of the cleaner *)
HoursAtLeast(p, r, tenths) ==
    IF InMinutes(p) THEN r.calc * 10 >= tenths * 60
    ELSE r.calc * 10 >= tenths * 100

(* C4: when no status code decides, the status is Present for h >= 7.0,    *)
(* Half Day for 4.5 <= h < 7.0 and Absent below 4.5, for zero and for      *)
(* blank hours.                                                            *)
C4_StatusThresholds ==
    \A r \in Recs :
        r.code = "" =>
            r.status = IF BothPunches(r) /\ HoursAtLeast(parser, r, 70) THEN "Present"
                       ELSE IF BothPunches(r) /\ HoursAtLeast(parser, r, 45) THEN "Half Day"
                       ELSE "Absent"

(* exactly 7 h on the Present side, exactly 4 h 30 min on the Half Day     *)
(* side, 4 h 29 min Absent, each decided by the hours alone                *)
C4_Witness ==
    /\ parser = "inout10"
    /\ outcome = "ok"
    /\ \E r \in Recs :
          /\ r.code = ""
          /\ r.calc = 270
          /\ r.status = "Half Day"

(* C5: Over Time is blank when hours - 9 < 1 and round(hours - 9, 2)       *)
(* otherwise.                                                              *)
C5_OvertimeStandardNine ==
    \A r \in Recs :
        LET h == IF BothPunches(r) THEN HoursOf(parser, r) ELSE 0
        IN  IF h - 900 < 100 THEN r.overtime = Blank
            ELSE r.overtime.k \in {"num", "text"} /\ r.overtime.v = h - 900

(* a row whose identifier matches no Employee, by device id (leading zeros *)
(* aside), by VEIL code or by name                                         *)
Unresolvable(r) ==
    /\ r.id # ""
    /\ \A e \in directory :
          /\ e.device # r.id
          /\ e.device # IntStr(r.id)
          /\ e.name # r.id
          /\ e.name # r.veil

HasDate(r) == r.date # NoDate

FileRows == Range(file)

(* cleaners that look the Employee up in the directory *)
Resolving(p) == p \in {"inout30", "inout10", "inout13", "inout7_2", "inout12", "inout16"}

(* C6: a fully punched, named and dated row whose identifier cannot be     *)
(* resolved still yields a record, and that record has a blank Employee.   *)
C6_UnresolvedBlankAndEmitted ==
    (Done /\ Resolving(parser)) =>
        \A r \in FileRows :
            (/\ Unresolvable(r)
             /\ HasDate(r)
             /\ r.name # ""
             /\ r.tin # NoTime
             /\ r.tout # NoTime) =>
                /\ \E x \in Recs : x.raw = r.id /\ x.date = r.date
                /\ \A x \in Recs : (x.raw = r.id /\ x.date = r.date) => x.employee = ""

(* an in punch, an out punch or a status code *)
HasSignal(r) == r.tin # NoTime \/ r.tout # NoTime \/ r.stat # ""

(* C7: every row with a date and an attendance signal is represented by a  *)
(* record of the output.                                                   *)
C7_SignalledDayEmitted ==
    Done =>
        \A r \in FileRows :
            (HasDate(r) /\ HasSignal(r)) =>
                \E x \in Recs : x.raw = r.id /\ x.date = r.date

(* cleaners that detect the shift from the punches *)
Detecting(p) == p \in {"inout30", "inout10", "inout13", "inout7_2", "inout12", "inout16"}

CanonicalShift(h) ==
    IF 5 <= h /\ h <= 7 THEN "A"
    ELSE IF 8 <= h /\ h <= 10 THEN "G"
    ELSE IF 13 <= h /\ h <= 15 THEN "B"
    ELSE IF 21 <= h /\ h <= 23 THEN "C"
    ELSE ""

(* C8: a punch-in hour inside a canonical window gets the code of that     *)
(* window in every shift-detecting cleaner.                                *)
C8_CanonicalWindows ==
    Detecting(parser) =>
        \A r \in Recs :
            (r.inTime # NoTime /\ CanonicalShift(HourOf(r.inTime)) # "") =>
                r.shift = CanonicalShift(HourOf(r.inTime))

Abs(x) == IF x < 0 THEN -x ELSE x

CircularDistance(h, c) == IF Abs(h - c) <= 12 THEN Abs(h - c) ELSE 24 - Abs(h - c)

WindowCenter == [A |-> 6, G |-> 9, B |-> 14, C |-> 22]

(* the codes whose window center is nearest to hour h on the 24 h circle *)
NearestByCircle(h) ==
    {s \in DOMAIN WindowCenter :
        \A t \in DOMAIN WindowCenter :
            CircularDistance(h, WindowCenter[s]) <= CircularDistance(h, WindowCenter[t])}

(* C9: a punch-in hour outside the four windows gets the code of the       *)
(* window with the nearest center by circular distance, never a blank.     *)
C9_NearestWindow ==
    Detecting(parser) =>
        \A r \in Recs :
            (r.inTime # NoTime /\ CanonicalShift(HourOf(r.inTime)) = "") =>
                r.shift \in NearestByCircle(HourOf(r.inTime))

(* C10: a record without punch-in has a blank Shift.                       *)
C10_NoPunchInBlankShift ==
    Detecting(parser) =>
        \A r \in Recs : r.inTime = NoTime => r.shift = ""

(* a range is requested when both of its ends are given *)
Requested == request[1] # NoDate /\ request[2] # NoDate

RequestRejected ==
    \/ request[1] = BadDate \/ request[2] = BadDate
    \/ request[1] > request[2]
    \/ request[1] < FileSpan(file)[1]
    \/ request[2] > FileSpan(file)[2]

C12_NoGuessedRow ==
    (Done /\ parser = "crystal" /\ detect_date_row(layout) = NoRow) =>
        error = "StructureError"

(* a time cell that is present and parses to a time of day *)
Parseable(t) == t # NoTime /\ t # BadTime

(* C13: a time cell that cannot be parsed counts as a missing punch; the   *)
(* record never carries a time of day for it.                              *)
C13_UnparseableIsMissing ==
    (outcome = "ok" /\ parser = "crystal") =>
        \A r \in FileRows : \A x \in Recs :
            (x.raw = r.id /\ x.date = r.date) =>
                /\ r.tin = BadTime => x.inTime = NoTime
                /\ r.tout = BadTime => x.outTime = NoTime

(* C14: a missing required column and a rejected date range end the run   *)
(* before the first row: no record is built, no employee is looked up for  *)
(* a row and none is reported as not found.                                *)
C14_FatalBeforeRows ==
    Done =>
        /\ ~columns => error = "FormatError"
        /\ (columns /\ Requested /\ RequestRejected) => error = "RangeError"
        /\ error \in {"FormatError", "RangeError"} =>
              /\ outcome = "error"
              /\ records = <<>>
              /\ lookups = 0
              /\ unresolved = <<>>

C14_Witness ==
    /\ parser = "inout14"
    /\ error = "RangeError"
    /\ \E i \in 1..Len(file) : file[i].id = "999"
    /\ lookups = 0

(***************************************************************************)
(* Runs of a cleaner while another user edits the Employee master.         *)
(* clean_daily_inout14 asks the database for the employee of every row;    *)
(* clean_daily_inout10 loads all employees into employee_cache before the  *)
(* rows.  A run is followed read by read; what a read returns is the       *)
(* directory at that moment.                                               *)
(***************************************************************************)
Directories ==
    {Employees, {}, {[name |-> "V2", device |-> "101"]}}

(* another session saves or deletes an Employee *)
DirectoryChange ==
    /\ \E d \in Directories \ {directory} : directory' = d
    /\ UNCHANGED <<file, parser, outcome, records, columns, request, error,
                   lookups, unresolved, effective, layout, upload_vars, import_vars, dir_reads>>

Reading(p) == parser = p /\ outcome = "idle"

Begin(p) ==
    /\ step = "none"
    /\ parser = "none"
    /\ parser' = p
    /\ dir_reads' = <<>>
    /\ UNCHANGED <<file, directory, outcome, records, columns, request, error,
                   lookups, unresolved, effective, layout, upload_vars, import_vars>>

Begin14 == Begin("inout14")

Begin10 == Begin("inout10")

(* one pass of the row loop: the get_doc of the next row *)
Lookup14 ==
    /\ Reading("inout14")
    /\ Len(dir_reads) < Len(file)
    /\ dir_reads' = Append(dir_reads, directory)
    /\ UNCHANGED <<file, directory, parser, outcome, records, columns, request,
                   error, lookups, unresolved, effective, layout, upload_vars, import_vars>>

End14 ==
    /\ Reading("inout14")
    /\ Len(dir_reads) = Len(file)
    /\ Returned("inout14", clean_daily_inout14_seen(file, dir_reads, columns, request))
    /\ UNCHANGED <<upload_vars, import_vars, dir_reads>>

(* frappe.get_all('Employee', ...) fills employee_cache, once *)
LoadCache10 ==
    /\ Reading("inout10")
    /\ dir_reads = <<>>
    /\ dir_reads' = <<directory>>
    /\ UNCHANGED <<file, directory, parser, outcome, records, columns, request,
                   error, lookups, unresolved, effective, layout, upload_vars, import_vars>>

End10 ==
    /\ Reading("inout10")
    /\ dir_reads # <<>>
    /\ Returned("inout10", clean_daily_inout10(file, dir_reads[1], columns, request))
    /\ UNCHANGED <<upload_vars, import_vars, dir_reads>>

InitDirectory ==
    /\ file \in UNION {[1..n -> PunchRows] : n \in 2..MaxRows}
    /\ layout = DatedLayout
    /\ columns = TRUE
    /\ request = NoRequest
    /\ Idle

NextDirectory ==
    \/ Begin14
    \/ Lookup14
    \/ End14
    \/ Begin10
    \/ LoadCache10
    \/ End10
    \/ DirectoryChange

SpecDirectory == InitDirectory /\ [][NextDirectory]_vars

(***************************************************************************)
(* C15.  A failure of the selected cleaner ends the submission: no cleaned *)
(* File document and no Data Import exist, no import was started and the   *)
(* cleaner's error is the one raised to the submitting caller; a Data      *)
(* Import exists only when the cleaner returned successfully.              *)
(***************************************************************************)
C15_CleanerFailureStopsFlow ==
    /\ (outcome = "error") =>
           /\ cleaned_file_docs = 0
           /\ data_imports = {}
           /\ started = {}
           /\ step = "raised"
           /\ raised = error
    /\ (data_imports # {}) => (outcome = "ok")

C15_Witness ==
    /\ outcome = "error"
    /\ parser = "inout14"
    /\ error = "EmptyResultError"
    /\ step = "raised"

(***************************************************************************)
(* C16.  clean_daily_inout14: the Working Hours of a merged (employee,     *)
(* date) group of several rows are the sum of the durations of the rows    *)
(* that carry an in and an out, not the span from the first in to the last *)
(* out.                                                                    *)
(***************************************************************************)
(* the rows of the file behind the merged record r *)
SourceRows14(r) ==
    {i \in DOMAIN file :
        /\ Resolve14(directory, file[i].id) = r.employee
        /\ file[i].date = r.date}

Paired14(row) == row.tin # NoTime /\ row.tout # NoTime

(* minutes from the in to the out of one row, the out on the next day     *)
(* when it is not after the in                                             *)
PairMinutes14(row) ==
    IF ~Paired14(row) THEN 0
    ELSE IF row.tout <= row.tin THEN (row.tout + DayMinutes) - row.tin
    ELSE row.tout - row.tin

RECURSIVE SumOfPairs14(_)
SumOfPairs14(S) ==
    IF S = {} THEN 0
    ELSE LET i == CHOOSE j \in S : TRUE
         IN  PairMinutes14(file[i]) + SumOfPairs14(S \ {i})

(* minutes from the earliest in to the latest out of the rows S *)
SpanMinutes14(S) ==
    LET ins == {file[i].tin : i \in {j \in S : file[j].tin # NoTime}}
        outs == {file[i].tin + PairMinutes14(file[i]) : i \in {j \in S : Paired14(file[j])}}
                  \cup {file[i].tout : i \in {j \in S : file[j].tout # NoTime
                                                       /\ file[j].tin = NoTime}}
    IN  IF ins = {} \/ outs = {} THEN 0 ELSE SetMax(outs) - SetMin(ins)

HoursValue(r) == IF r.hours = Blank THEN 0 ELSE r.hours.v

Merged14Recs ==
    IF parser = "inout14"
    THEN {r \in Recs : r.employee # "" /\ Cardinality(SourceRows14(r)) >= 2}
    ELSE {}

(* C16 as stated: every merged group of several rows *)
C16_HoursAreSumOfPairs ==
    \A r \in Merged14Recs :
        HoursValue(r) = Round2(SumOfPairs14(SourceRows14(r)))

(* C16 amended: the groups in which at least one row carries both punches *)
C16_HoursAreSumOfPairsWhenPaired ==
    \A r \in Merged14Recs :
        (\E i \in SourceRows14(r) : Paired14(file[i])) =>
            r.hours = Num(Round2(SumOfPairs14(SourceRows14(r))))

C16_Witness ==
    \E r \in Merged14Recs :
        /\ \A i \in SourceRows14(r) : Paired14(file[i])
        /\ SumOfPairs14(SourceRows14(r)) # SpanMinutes14(SourceRows14(r))
        /\ r.hours = Num(Round2(SumOfPairs14(SourceRows14(r))))

(***************************************************************************)
(* C17.  A day whose source cell holds a leave or holiday token is emitted *)
(* with the Status the table of its format gives the token, whatever the   *)
(* hours worked; the hour thresholds decide only without such a token.     *)
(***************************************************************************)
(* the leave and holiday tokens of the table of each format *)
LeaveTokens(p) ==
    CASE p = "inout16" -> {"WO", "PH", "PL", "LI"}
      [] p = "inout12" -> {"WO", "H", "CL", "PL", "SL", "EL", "ML"}
      [] p = "crystal" -> {"H", "HO", "WO", "ML", "CO"}
      [] OTHER -> {}

TableStatus(p, r) ==
    CASE p = "inout16" -> determine_status_from_hours16(r.calc, r.code)
      [] p = "inout12" -> status_map12[r.code]
      [] OTHER -> status_map_crystal(r.code)

C17_LeaveTokenDecidesStatus ==
    \A r \in Recs :
        (r.code \in LeaveTokens(parser)) => (r.status = TableStatus(parser, r))

(***************************************************************************)
(* C18.  The consolidating cleaners emit one record per (source employee,  *)
(* date) group of punch rows: no two records share the source id and the   *)
(* date, the In Time is the earliest in and the Out Time the latest out of *)
(* the rows of the group.                                                  *)
(***************************************************************************)
Consolidating(p) == p \in {"inout14", "inout30"}

(* the rows of the file with the source id and the date of record r *)
GroupRows(r) == {i \in DOMAIN file : file[i].id = r.raw /\ file[i].date = r.date}

InEvents(r) ==
    {Stamp(file[i].date, file[i].tin) : i \in {j \in GroupRows(r) : file[j].tin # NoTime}}

(* the merge of clean_daily_inout14 takes an out that is not after the in *)
(* of its row as an out of the next day; a row it leaves unmerged keeps    *)
(* its out as written                                                      *)
OutEvent(p, r, row) ==
    IF p = "inout14" /\ r.employee # "" /\ row.tin # NoTime /\ row.tout <= row.tin
    THEN Stamp(row.date, row.tout) + DayMinutes
    ELSE Stamp(row.date, row.tout)

OutEvents(p, r) ==
    {OutEvent(p, r, file[i]) : i \in {j \in GroupRows(r) : file[j].tout # NoTime}}

FirstAndLast(p, r) ==
    /\ r.inTime = (IF InEvents(r) = {} THEN NoTime ELSE SetMin(InEvents(r)))
    /\ r.outTime = (IF OutEvents(p, r) = {} THEN NoTime ELSE SetMax(OutEvents(p, r)))

IsMerged(p, r) == r.date # NoDate /\ (p = "inout14" => r.employee # "")

C19_DateAndNameNotBothBlank ==
    \A r \in Recs : ~(r.date = NoDate /\ r.name = "")

(***************************************************************************)
(* C20.  In a run of clean_daily_inout14 every distinct GP number that     *)
(* fails the directory lookup is reported as not found exactly once,       *)
(* however many rows carry it, and all rows of one GP number resolve to    *)
(* the same employee.                                                      *)
(***************************************************************************)
(* the distinct raw ids of the file that the directory does not resolve *)
FailingIds ==
    {file[i].id : i \in {j \in DOMAIN file :
        file[j].id # "" /\ ~(\E e \in directory : e.device = file[j].id)}}

TimesReported(id) == Cardinality({k \in DOMAIN unresolved : unresolved[k] = id})

C20_UnresolvedReportedOnce ==
    (parser = "inout14" /\ outcome = "ok") =>
        /\ \A id \in FailingIds : TimesReported(id) = 1
        /\ \A a, b \in Recs : (a.raw = b.raw) => (a.employee = b.employee)

(***************************************************************************)
(* C21.  A run reads the directory as it was when the run began: the run   *)
(* writes nothing to it, and whatever another user changes meanwhile, two  *)
(* rows with the same raw id resolve to the same employee.                 *)
(***************************************************************************)
(* the employee a run gave row i; clean_daily_inout10 resolves every row  *)
(* from its employee_cache                                                 *)
ResolvedAs(i) ==
    IF parser = "inout14" THEN Resolve14(dir_reads[i], file[i].id)
    ELSE LookupDevice(dir_reads[1], file[i].id)

C21_RunSeesOneDirectory ==
    (Done /\ parser \in {"inout14", "inout10"}) =>
        /\ \A i, j \in DOMAIN file :
               (file[i].id = file[j].id) => (ResolvedAs(i) = ResolvedAs(j))
        /\ \A i \in DOMAIN dir_reads : dir_reads[i] = dir_reads[1]

(***************************************************************************)
(* C22.  The numeric cell holding the serial of 09:30 (9.5 / 24) is        *)
(* normalized to hour 9 and minute 30: not 09:29, not 09:31.               *)
(***************************************************************************)
HalfPastNine == (9 * 60) + 30

C22_SerialHalfPastNine ==
    (parser = "crystal" /\ outcome = "ok" /\ file[1].tin = Serial(HalfPastNine)) =>
        /\ Len(records) = 1
        /\ records[1].inTime = Stamp(file[1].date, HalfPastNine)

C22_Witness ==
    /\ parser = "crystal"
    /\ outcome = "ok"
    /\ file[1].tin = Serial(HalfPastNine)
    /\ HourOf(records[1].inTime) = 9
    /\ records[1].inTime % 60 = 30

(* C23: every Attendance inserted by the Data Import of the upload carries *)
(* the upload's name in custom_crystal_upload_ref, and no Attendance       *)
(* inserted for another reason carries it                                  *)
C23_ImportedRecordsAreStamped ==
    \A a \in attendance :
        (a.via = "DI-0001") <=> (a.custom_crystal_upload_ref = UploadName)

(* C24: frappe.flags.current_crystal_upload is None whenever               *)
(* process_uploaded_file has returned or raised, and holds the upload's    *)
(* name only while Step 4 is running                                       *)
C24_FlagAlwaysCleared ==
    /\ (step \in {"done", "raised"}) => (current_crystal_upload = None)
    /\ (current_crystal_upload # None) =>
           ((step = "importing") /\ (current_crystal_upload = UploadName))

(* Step 4 set the flag, the import inserted a record, Step 4 raised *)
C24_Witness ==
    /\ step = "raised"
    /\ raised = "ImportError"
    /\ attendance # {}
    /\ current_crystal_upload = None

(* the records and Data Imports of the upload left in the database *)
Leftover == Referenced(attendance) \cup Referenced(data_imports)

C26_PassReducesCount ==
    [][Cancel_Pass =>
         (Cardinality(Referenced(attendance')) + cancel'.bulk
            < Cardinality(Referenced(attendance)) + cancel.bulk)]_vars

(* C27: cancel_uploaded_file never propagates an exception *)
C27_CancelNeverRaises == cancel.pc # "raised"

C29_EventuallyReported ==
    <>((monitor.final > 0) \/ monitor.timed_out)

(* the header row that most recently precedes row i of the sheet (0: none) *)
HeaderBefore(i) ==
    LET headers == {h \in 1..(i - 1) : is_employee_header_row(file[h])}
    IN  IF headers = {} THEN 0 ELSE SetMax(headers)

(* C30: every punch row of a record of clean_daily_inout2 belongs to the   *)
(* block of the record's employee: the header row that most recently       *)
(* precedes the punch names that employee and gate pass                    *)
C30_PunchUnderOwnHeader ==
    (parser = "inout2") =>
        \A r \in 1..Len(records) : \A i \in records[r].rows :
            /\ HeaderBefore(i) # 0
            /\ extract_employee_info(file[HeaderBefore(i)]) =
                  <<records[r].name, records[r].gate_pass>>

====
